---- MODULE Spec2Model ----
(***************************************************************************)
(* Authentication and authorization pipeline of the LearnHub backend       *)
(* (app/auth.py, app/dependencies.py): the JWKS cache, the two-strategy    *)
(* token verifier get_current_user, the role guard require_role and the    *)
(* optional-identity wrapper get_current_user_optional; and two routes     *)
(* that run on the identity: GET /users/me (app/routers/users.py) and the  *)
(* feed of app/routers/posts.py: GET /posts/, the like toggles, update and *)
(* delete of a post, and the WebSocket ConnectionManager.                  *)
(***************************************************************************)
EXTENDS Integers, Sequences, FiniteSets, TLC

VARIABLES
    jwt_secret,      \* os.getenv("SUPABASE_JWT_SECRET"); "" when not configured
    supabase_admin,  \* dependencies.supabase_admin is a client (TRUE) or None (FALSE)
    jwks_cache,      \* auth._jwks_cache
    upstream,        \* key list the identity provider's JWKS endpoint serves now
    now,             \* wall clock, seconds
    users,           \* the users table: subject id -> persisted role, or NoRow
    req,             \* the requests in flight, one slot per worker task
    feed,            \* the posts, comments, likes and comment_likes tables
    active_connections,  \* posts.manager.active_connections, a list of sockets
    ws,              \* each WebSocket's endpoint: new, accepting, open or closed
    bcast            \* the running call of manager.broadcast and its list iterator

\* posts.manager, the one ConnectionManager, and what its coroutines hold.
manager == <<active_connections, ws, bcast>>

vars == <<jwt_secret, supabase_admin, jwks_cache, upstream, now, users, req, feed,
          manager>>

---------------------------------------------------------------------------
(* Bounds of the model *)

\* Number of distinct signing keys the identity provider may publish.
MaxKeys == 2

\* The clock runs from 0 to MaxTime.
MaxTime == 1

KidNames == <<"k1", "k2", "k3", "k4">>
Kids     == {KidNames[i] : i \in 1..MaxKeys}
Times    == 0..MaxTime

Procs    == {"p1", "p2"}
Subjects == {"u1", "u2"}
Secrets  == {"s1", "s2"}          \* "s1" is the secret the server may hold
Emails   == {"e1"}
TokenRoles     == {"student", "teacher"}
PersistedRoles == {"student", "teacher", "Teacher"}
NoRow    == "<no row>"

---------------------------------------------------------------------------
(* Program constants *)

SUPABASE_AUDIENCE == "authenticated"

\* The WebSockets that may connect to /posts/ws.
Sockets == {"w1", "w2", "w3"}

\* No broadcast is running.
NoBroadcast ==
    [pc |-> "idle", i |-> 0, current |-> "-", attempted |-> {}, failed |-> {},
     stayed |-> {}]

\* ConnectionManager.__init__, lines 19-20; no socket has connected.
ManagerInit ==
    /\ active_connections = <<>>
    /\ ws = [w \in Sockets |-> "new"]
    /\ bcast = NoBroadcast

---------------------------------------------------------------------------
(* Outcomes of a call: a returned value or a raised exception *)

Return(v)   == [kind |-> "return", value |-> v]
ReturnNone  == [kind |-> "return_none"]
Raise(exc, status, detail) ==
    [kind |-> "raise", exc |-> exc, status_code |-> status, detail |-> detail]

\* class AuthError(HTTPException): always 401
AuthError(detail) == Raise("AuthError", 401, detail)

HTTPException(status, detail) == Raise("HTTPException", status, detail)

\* An exception no handler catches: the framework answers 500.
Uncaught(exc, msg) == Raise(exc, 500, <<msg>>)

Returned(o) == o.kind = "return"
Raised(o)   == o.kind = "raise"

\* str(e) of an HTTPException: "<status_code>: <detail>"
StrHTTPException(o) ==
    <<IF o.status_code = 401 THEN "401: "
      ELSE IF o.status_code = 403 THEN "403: " ELSE "500: ">> \o o.detail

---------------------------------------------------------------------------
(* Tokens.  A well-formed token is a header dict, a payload dict and a     *)
(* signature, identified here by the key that produced it.                 *)

Restrict(f, D) == [x \in D |-> f[x]]

Headers ==
    {[alg |-> a] : a \in {"HS256", "RS256"}}
    \cup {[alg |-> a, kid |-> k] : a \in {"HS256", "RS256"}, k \in Kids}

\* Every dict whose keys are among `names`, a subset of the claim names
\* sub, aud, exp, role, email.
PayloadsOver(names, subs, auds, exps, roles, emails) ==
    {Restrict([sub |-> s, aud |-> a, exp |-> e, role |-> r, email |-> m], D) :
        s \in subs, a \in auds, e \in exps, r \in roles, m \in emails,
        D \in SUBSET names}

GarbageToken ==
    [form |-> "garbage", header |-> [alg |-> "none"],
     payload |-> [sub |-> "garbage"], sig |-> "none"]

\* A secret signs under HS256, a provider key under RS256.
AlgOf(k) == IF k \in Secrets THEN "HS256" ELSE "RS256"

JWT(h, p, k) == [form |-> "jwt", header |-> h, payload |-> p, sig |-> k]

\* HTTPBearer(auto_error=False): None when the Authorization header is
\* missing or is no Bearer credential, else the credentials.
NoCredentials == [present |-> FALSE, credentials |-> GarbageToken]
Credentials(t) == [present |-> TRUE, credentials |-> t]

\* The tokens a client may present: signed by any secret or provider key,
\* with or without a kid in the header, over the given payloads; and a
\* string that is no JWT at all.
TokensOver(payloads) ==
    {JWT(h, p, k) : h \in Headers, p \in payloads, k \in Secrets \cup Kids}
    \cup {GarbageToken}

---------------------------------------------------------------------------
(* python-jose, as the verifier calls it *)

JWTOk(p)    == [ok |-> TRUE, payload |-> p]
JWTError(m) == [ok |-> FALSE, msg |-> m]

\* jws.verify: the header's alg must be allowed and the signature must have
\* been produced by `key` under that alg.
SignatureValid(token, key, algorithm) ==
    /\ token.header.alg = algorithm
    /\ AlgOf(token.sig) = algorithm
    /\ token.sig = key

\* Faulty variant: the signature is not verified.
jwt_decode_NoSignature(token, key, algorithm, audience, t) ==
    IF token.form # "jwt" THEN JWTError("Error decoding token headers.")
    ELSE IF token.header.alg # algorithm
        THEN JWTError("The specified alg value is not allowed")
    ELSE IF "exp" \in DOMAIN token.payload /\ token.payload["exp"] < t
        THEN JWTError("Signature has expired.")
    ELSE IF "aud" \in DOMAIN token.payload /\ token.payload["aud"] # audience
        THEN JWTError("Invalid audience")
    ELSE JWTOk(token.payload)

\* Faulty variant: options={"verify_exp": False}.
jwt_decode_NoExp(token, key, algorithm, audience, t) ==
    IF token.form # "jwt" THEN JWTError("Error decoding token headers.")
    ELSE IF token.header.alg # algorithm
        THEN JWTError("The specified alg value is not allowed")
    ELSE IF ~SignatureValid(token, key, algorithm)
        THEN JWTError("Signature verification failed.")
    ELSE IF "aud" \in DOMAIN token.payload /\ token.payload["aud"] # audience
        THEN JWTError("Invalid audience")
    ELSE JWTOk(token.payload)

\* Faulty variant: no audience is passed, so aud is not validated.
jwt_decode_NoAud(token, key, algorithm, audience, t) ==
    IF token.form # "jwt" THEN JWTError("Error decoding token headers.")
    ELSE IF token.header.alg # algorithm
        THEN JWTError("The specified alg value is not allowed")
    ELSE IF ~SignatureValid(token, key, algorithm)
        THEN JWTError("Signature verification failed.")
    ELSE IF "exp" \in DOMAIN token.payload /\ token.payload["exp"] < t
        THEN JWTError("Signature has expired.")
    ELSE JWTOk(token.payload)

\* jwt.decode(token, key, algorithms=[algorithm], audience=audience,
\*            options={"verify_exp": True}) at time t.
\* exp and aud are validated only when the claim is present.
jwt_decode(token, key, algorithm, audience, t) ==
    IF token.form # "jwt" THEN JWTError("Error decoding token headers.")
    ELSE IF token.header.alg # algorithm
        THEN JWTError("The specified alg value is not allowed")
    ELSE IF ~SignatureValid(token, key, algorithm)
        THEN JWTError("Signature verification failed.")
    ELSE IF "exp" \in DOMAIN token.payload /\ token.payload["exp"] < t
        THEN JWTError("Signature has expired.")
    ELSE IF "aud" \in DOMAIN token.payload /\ token.payload["aud"] # audience
        THEN JWTError("Invalid audience")
    ELSE JWTOk(token.payload)

\* jwt.get_unverified_header(token)
get_unverified_header(token) ==
    IF token.form # "jwt" THEN JWTError("Error decoding token headers.")
    ELSE [ok |-> TRUE, header |-> token.header]

---------------------------------------------------------------------------
(* auth._jwks_cache and auth._get_jwks *)

CacheNone    == [set |-> FALSE, keys |-> <<>>]
CacheOf(ks)  == [set |-> TRUE, keys |-> ks]

\* Faulty variant: the cache is never taken as filled.
CacheTruthy_Never(c) == FALSE

\* `if _jwks_cache:` -- None and the empty list are both falsy.
CacheTruthy(c) == c.set /\ c.keys # <<>>

\* The key list with the first n provider keys, each a JWK dict.
KeyList(n) == [i \in 1..n |-> [kid |-> KidNames[i]]]
KeyLists   == {KeyList(n) : n \in 0..MaxKeys}

---------------------------------------------------------------------------
(* auth.get_current_user *)

Fallthrough == [kind |-> "fallthrough"]
AwaitJwks   == [kind |-> "await_jwks"]
NotCalled   == [kind |-> "not_called"]

\* Faulty variant: the test of the secret is inverted, so HS256 is never tried with it.
Strategy1_Inverted(token, secret, t) ==
    IF secret # "" THEN Fallthrough
    ELSE LET d == jwt_decode(token, secret, "HS256", SUPABASE_AUDIENCE, t)
         IN  IF d.ok /\ "sub" \in DOMAIN d.payload
             THEN Return(d.payload)
             ELSE Fallthrough

\* Faulty variant: the payload is returned without the test for `sub`.
Strategy1_NoSubTest(token, secret, t) ==
    IF secret = "" THEN Fallthrough
    ELSE LET d == jwt_decode(token, secret, "HS256", SUPABASE_AUDIENCE, t)
         IN  IF d.ok THEN Return(d.payload) ELSE Fallthrough

\* Strategy 1: HS256 with the configured secret; accepted only with `sub`.
Strategy1(token, secret, t) ==
    IF secret = "" THEN Fallthrough
    ELSE LET d == jwt_decode(token, secret, "HS256", SUPABASE_AUDIENCE, t)
         IN  IF d.ok /\ "sub" \in DOMAIN d.payload
             THEN Return(d.payload)
             ELSE Fallthrough

\* next((k for k in jwks if k["kid"] == unverified_header["kid"]), None):
\* 0 when no key matches, the index of the first match otherwise.
FindKey(jwks, kid) ==
    IF \E i \in 1..Len(jwks) : jwks[i].kid = kid
    THEN CHOOSE i \in 1..Len(jwks) :
            /\ jwks[i].kid = kid
            /\ \A j \in 1..(i-1) : jwks[j].kid # kid
    ELSE 0

\* Faulty variant: one message for a missing key, with or without a secret.
Strategy2_OneMessage(token, secret, jwks, t) ==
    IF jwks # <<>> /\ "kid" \notin DOMAIN token.header
    THEN AuthError(<<"Authentication failed: ", "'kid'">>)
    ELSE LET i == IF jwks = <<>> THEN 0 ELSE FindKey(jwks, token.header["kid"])
         IN  IF i = 0
             THEN AuthError(<<"Authentication failed: ">> \o
                      StrHTTPException(AuthError(
                          <<"Public key not found and no symmetric secret configured">>)))
             ELSE LET d == jwt_decode(token, jwks[i].kid, "RS256", SUPABASE_AUDIENCE, t)
                  IN  IF ~d.ok
                      THEN AuthError(<<"Invalid or expired authentication token: ", d.msg>>)
                      ELSE IF "sub" \notin DOMAIN d.payload
                      THEN AuthError(<<"Invalid token payload">>)
                      ELSE Return(d.payload)

\* Faulty variant: strategy 2 without the final sub check of lines 106-108.
Strategy2_NoSubTest(token, secret, jwks, t) ==
    IF jwks # <<>> /\ "kid" \notin DOMAIN token.header
    THEN AuthError(<<"Authentication failed: ", "'kid'">>)
    ELSE LET i == IF jwks = <<>> THEN 0 ELSE FindKey(jwks, token.header["kid"])
         IN  IF i = 0
             THEN AuthError(<<"Authentication failed: ">> \o
                      StrHTTPException(AuthError(
                          IF secret = ""
                          THEN <<"Public key not found and no symmetric secret configured">>
                          ELSE <<"Authentication failed: No valid verification method found">>)))
             ELSE LET d == jwt_decode(token, jwks[i].kid, "RS256", SUPABASE_AUDIENCE, t)
                  IN  IF ~d.ok
                      THEN AuthError(<<"Invalid or expired authentication token: ", d.msg>>)
                      ELSE Return(d.payload)

\* Lines 77-110: strategy 2 once the key list is at hand, then the sub check.
Strategy2(token, secret, jwks, t) ==
    IF jwks # <<>> /\ "kid" \notin DOMAIN token.header
    THEN \* KeyError('kid') in the generator, caught by `except Exception`
         AuthError(<<"Authentication failed: ", "'kid'">>)
    ELSE LET i == IF jwks = <<>> THEN 0 ELSE FindKey(jwks, token.header["kid"])
         IN  IF i = 0
             THEN \* the AuthError raised inside the try is itself caught by
                  \* `except Exception` and wrapped
                  AuthError(<<"Authentication failed: ">> \o
                      StrHTTPException(AuthError(
                          IF secret = ""
                          THEN <<"Public key not found and no symmetric secret configured">>
                          ELSE <<"Authentication failed: No valid verification method found">>)))
             ELSE LET d == jwt_decode(token, jwks[i].kid, "RS256", SUPABASE_AUDIENCE, t)
                  IN  IF ~d.ok
                      THEN AuthError(<<"Invalid or expired authentication token: ", d.msg>>)
                      ELSE IF "sub" \notin DOMAIN d.payload
                      THEN AuthError(<<"Invalid token payload">>)
                      ELSE Return(d.payload)

\* Faulty variant: the key set is awaited before strategy 1 is tried.
BeforeJwks_FetchFirst(credentials, secret, cache, t) ==
    IF ~credentials.present
    THEN Uncaught("AttributeError", "'NoneType' object has no attribute 'credentials'")
    ELSE LET token == credentials.credentials
             s1    == Strategy1(token, secret, t)
             h     == get_unverified_header(token)
         IN  IF ~h.ok
             THEN AuthError(<<"Invalid or expired authentication token: ", h.msg>>)
             ELSE IF ~CacheTruthy(cache) THEN AwaitJwks
             ELSE IF Returned(s1) THEN s1
             ELSE Strategy2(token, secret, cache.keys, t)

\* Lines 42-75: from the call to the first suspension point.  The result is
\* an outcome, or AwaitJwks when the coroutine suspends in _get_jwks.
BeforeJwks(credentials, secret, cache, t) ==
    IF ~credentials.present
    THEN \* credentials is None: line 42 raises outside the try block
         Uncaught("AttributeError", "'NoneType' object has no attribute 'credentials'")
    ELSE LET token == credentials.credentials
             s1    == Strategy1(token, secret, t)
             h     == get_unverified_header(token)
         IN  IF Returned(s1) THEN s1
             ELSE IF ~h.ok
             THEN AuthError(<<"Invalid or expired authentication token: ", h.msg>>)
             ELSE IF CacheTruthy(cache)
             THEN Strategy2(token, secret, cache.keys, t)
             ELSE AwaitJwks

\* Faulty variant: the failure of the fetch leaves the verifier as it is.
JwksFailed_Raw == Uncaught("HTTPStatusError", "key set unavailable")

\* client.get / raise_for_status / json()["keys"] failed: `except Exception`.
JwksFailed == AuthError(<<"Authentication failed: ", "key set unavailable">>)

---------------------------------------------------------------------------
(* auth.get_current_user_optional *)

\* Faulty variant: no try/except around the verifier.
OptionalResult_Propagates(v) == v

\* Lines 170-173: the wrapper's result for the verifier outcome v.
OptionalResult(v) == IF Raised(v) THEN ReturnNone ELSE v

---------------------------------------------------------------------------
(* dependencies.get_supabase_admin and auth.require_role *)

get_supabase_admin(admin) ==
    IF ~admin
    THEN HTTPException(500, <<"Server configuration error: Service role key missing">>)
    ELSE Return("supabase_admin")

\* db.from_("users").select("role").eq("id", user_id).execute().data
SelectRole(table, user_id) ==
    IF user_id \in DOMAIN table /\ table[user_id] # NoRow
    THEN <<[role |-> table[user_id]]>>
    ELSE <<>>

\* Faulty variant: the role claim of the token is taken when there is one.
RoleOf_TrustToken(user, data) ==
    IF "role" \in DOMAIN user THEN user["role"] ELSE data[1].role

\* user_role = user_res.data[0].get("role")
RoleOf(user, data) == data[1].role

Lower(r) == IF r = "Teacher" THEN "teacher" ELSE r

\* Faulty variant: the roles are compared without regard to case.
RoleMatches_NoCase(user_role, role) == Lower(user_role) = Lower(role)

\* user_role != role is false: exact, case-sensitive string equality
RoleMatches(user_role, role) == user_role = role

\* Faulty variant: user.setdefault("role", user_role) keeps a role the token carried.
SetRole_KeepExisting(user, user_role) ==
    [x \in DOMAIN user \cup {"role"} |->
        IF x = "role" /\ "role" \notin DOMAIN user THEN user_role ELSE user[x]]

\* user["role"] = user_role
SetRole(user, user_role) ==
    [x \in DOMAIN user \cup {"role"} |->
        IF x = "role" THEN user_role ELSE user[x]]

\* Faulty variant: no `except Exception` around the users lookup.
dependency_RawError(role, user, admin, table, dbError) ==
    LET db   == get_supabase_admin(admin)
        data == SelectRole(table, user["sub"])
    IN  IF Raised(db) THEN db
        ELSE IF dbError THEN Uncaught("APIError", "db error")
        ELSE IF data = <<>>
        THEN HTTPException(403,
                <<"User profile not found in database. Please complete your profile setup first.">>)
        ELSE IF ~RoleMatches(RoleOf(user, data), role)
        THEN HTTPException(403,
                <<"Access denied. Required role: ", role, ", your role: ",
                  RoleOf(user, data)>>)
        ELSE Return(SetRole(user, RoleOf(user, data)))

\* require_role(role).dependency(user); dbError: the query raised.
dependency(role, user, admin, table, dbError) ==
    LET db   == get_supabase_admin(admin)
        data == SelectRole(table, user["sub"])
    IN  IF Raised(db) THEN db
        ELSE IF dbError
        THEN HTTPException(403,
                <<"Could not verify user role. Error: ", "APIError", ": ", "db error">>)
        ELSE IF data = <<>>
        THEN HTTPException(403,
                <<"User profile not found in database. Please complete your profile setup first.">>)
        ELSE IF ~RoleMatches(RoleOf(user, data), role)
        THEN HTTPException(403,
                <<"Access denied. Required role: ", role, ", your role: ",
                  RoleOf(user, data)>>)
        ELSE Return(SetRole(user, RoleOf(user, data)))

---------------------------------------------------------------------------
(* The tables read by the feed: posts, comments, likes, comment_likes.     *)
(* A likes table holds rows (item, user_id); nothing in the code keeps a   *)
(* pair from occurring more than once, so a table maps each pair to the    *)
(* number of its rows.                                                     *)

\* Rows a likes table may hold for one (item, user) pair.
MaxLikes == 2

PostIds    == {"p1", "p2"}
CommentIds == {"c1"}
\* created_at descending
PostOrder    == <<"p2", "p1">>
\* created_at ascending
CommentOrder == <<"c1">>

NoLikes(items) == [x \in items \X Subjects |-> 0]

\* The user_id and the content column of the posts rows; of a post that is
\* not in the table the entry means nothing.
Contents == {"a", "b"}
Authors  == [id \in PostIds |-> "u1"]
Written  == [id \in PostIds |-> "a"]

EmptyFeed ==
    [posts |-> {}, comments |-> {}, likes |-> NoLikes(PostIds),
     comment_likes |-> NoLikes(CommentIds), user_id |-> Authors,
     content |-> Written]

\* The feeds the tables can hold: every comment belongs to a post that
\* exists, every like to a post or a comment that exists.
Feeds ==
    {[posts |-> ps, comments |-> cs, likes |-> l, comment_likes |-> cl,
      user_id |-> Authors, content |-> Written] :
        ps \in SUBSET PostIds,
        cs \in SUBSET {[id |-> "c1", post_id |-> "p1"]},
        l  \in [PostIds \X Subjects -> 0..MaxLikes],
        cl \in [CommentIds \X Subjects -> 0..MaxLikes]}

WellFormedFeed(f) ==
    /\ \A c \in f.comments : c.post_id \in f.posts
    /\ \A x \in PostIds \X Subjects : x[1] \notin f.posts => f.likes[x] = 0
    /\ \A x \in CommentIds \X Subjects :
        (\A c \in f.comments : c.id # x[1]) => f.comment_likes[x] = 0

---------------------------------------------------------------------------
(* Requests.  A request is served by one task; a task runs without         *)
(* interruption between two awaits.                                        *)

Idle ==
    [pc |-> "idle", route |-> "-", need |-> "-", cred |-> NoCredentials,
     fetch |-> "-", jwks |-> <<>>, item |-> "-",
     verifier |-> NotCalled, at |-> 0, query |-> "-", out |-> NotCalled]

\* Fields of a request: the route and, for a role-gated route, the role it
\* needs; the HTTPBearer result; the outcome of get_current_user and the
\* clock when it ended; how the users query ended; the outcome handed to
\* the route.  fetch tells how _get_jwks answered this request ("cached",
\* "ok", "failed", or "-" when it was not called) and jwks is the key list
\* it returned.  item is the post or comment id of the path, where the
\* route has one.

\* Payloads of the tokens presented to the plain and the optional routes.
VerifyPayloads ==
    PayloadsOver({"sub", "aud", "exp", "email"},
                 {"u1"}, {SUPABASE_AUDIENCE, "other"}, Times, {"student"}, Emails)

\* Payloads of the tokens presented to the role-gated routes.
RolePayloads ==
    PayloadsOver({"sub", "role", "email"},
                 Subjects, {SUPABASE_AUDIENCE}, {MaxTime}, TokenRoles, Emails)

CredentialsOver(payloads) ==
    {NoCredentials} \cup {Credentials(t) : t \in TokensOver(payloads)}

\* The request's record once get_current_user has ended with outcome v.
\* The optional route answers at once; get_posts, the role guard and
\* read_users_me run next ("verified"); a protected route answers with v.
AfterVerifier(r, v) ==
    IF r.route = "optional"
    THEN [r EXCEPT !.pc = "done", !.verifier = v, !.at = now, !.out = OptionalResult(v)]
    ELSE IF r.route = "posts"
            \/ (r.route \in {"role", "users_me", "like", "comment_like",
                              "update_post", "delete_post"} /\ Returned(v))
    THEN [r EXCEPT !.pc = "verified", !.verifier = v, !.at = now]
    ELSE [r EXCEPT !.pc = "done", !.verifier = v, !.at = now, !.out = v]

\* Lines 42-77: get_current_user comes to `jwks = await _get_jwks()`.
ReachesJwks(credentials, secret, t) ==
    /\ credentials.present
    /\ ~Returned(Strategy1(credentials.credentials, secret, t))
    /\ get_unverified_header(credentials.credentials).ok

\* A request arrives and runs up to its first suspension point.
Start(p, routes, needs, creds) ==
    /\ req[p].pc = "idle"
    /\ \E route \in routes, need \in needs, cred \in creds :
        LET r == [Idle EXCEPT !.route = route, !.need = need, !.cred = cred]
            v == BeforeJwks(cred, jwt_secret, jwks_cache, now)
        IN  req' = [req EXCEPT ![p] =
                IF route = "optional" /\ ~cred.present
                THEN \* get_current_user_optional, line 168
                     [r EXCEPT !.pc = "done", !.out = ReturnNone]
                ELSE IF route = "posts" /\ ~cred.present
                THEN \* the same line; get_posts runs with current_user None
                     [r EXCEPT !.pc = "verified"]
                ELSE IF v = AwaitJwks
                THEN [r EXCEPT !.pc = "jwks"]
                ELSE IF ReachesJwks(cred, jwt_secret, now)
                THEN \* _get_jwks line 28-29: the cached list is returned
                     AfterVerifier([r EXCEPT !.fetch = "cached",
                                             !.jwks = jwks_cache.keys], v)
                ELSE AfterVerifier(r, v)]
    /\ UNCHANGED <<jwt_secret, supabase_admin, jwks_cache, upstream, now, users, feed, manager>>

\* Faulty variant: the fetched list is returned but not stored.
FetchOk_NoStore(p) ==
    /\ req[p].pc = "jwks"
    /\ req' = [req EXCEPT ![p] =
            AfterVerifier([req[p] EXCEPT !.fetch = "ok", !.jwks = upstream],
                Strategy2(req[p].cred.credentials, jwt_secret, upstream, now))]
    /\ UNCHANGED <<jwt_secret, supabase_admin, jwks_cache, upstream, now, users, feed, manager>>

\* Faulty variant: a verified subject without a profile is given one.
FetchOk_Provisions(p) ==
    /\ req[p].pc = "jwks"
    /\ jwks_cache' = CacheOf(upstream)
    /\ req' = [req EXCEPT ![p] =
            AfterVerifier([req[p] EXCEPT !.fetch = "ok", !.jwks = upstream],
                Strategy2(req[p].cred.credentials, jwt_secret, upstream, now))]
    /\ users' = IF Returned(req'[p].verifier)
                THEN [users EXCEPT ![req'[p].verifier.value["sub"]] = "student"]
                ELSE users
    /\ UNCHANGED <<jwt_secret, supabase_admin, upstream, now, feed, manager>>

\* _get_jwks lines 32-35: the GET answers 2xx with the provider's key list.
FetchOk(p) ==
    /\ req[p].pc = "jwks"
    /\ jwks_cache' = CacheOf(upstream)
    /\ req' = [req EXCEPT ![p] =
            AfterVerifier([req[p] EXCEPT !.fetch = "ok", !.jwks = upstream],
                Strategy2(req[p].cred.credentials, jwt_secret, upstream, now))]
    /\ UNCHANGED <<jwt_secret, supabase_admin, upstream, now, users, feed, manager>>

\* Faulty variant: _get_jwks swallows the failure and returns an empty list.
FetchFail_ReturnsEmpty(p) ==
    /\ req[p].pc = "jwks"
    /\ req' = [req EXCEPT ![p] =
            AfterVerifier([req[p] EXCEPT !.fetch = "failed"],
                Strategy2(req[p].cred.credentials, jwt_secret, <<>>, now))]
    /\ UNCHANGED <<jwt_secret, supabase_admin, jwks_cache, upstream, now, users, feed, manager>>

\* Faulty variant: a failed fetch is remembered as an empty key list.
FetchFail_CachesFailure(p) ==
    /\ req[p].pc = "jwks"
    /\ jwks_cache' = CacheOf(<<>>)
    /\ req' = [req EXCEPT ![p] =
            AfterVerifier([req[p] EXCEPT !.fetch = "failed"], JwksFailed)]
    /\ UNCHANGED <<jwt_secret, supabase_admin, upstream, now, users, feed, manager>>

\* _get_jwks lines 32-34: the GET fails, answers non-2xx or has no "keys".
FetchFail(p) ==
    /\ req[p].pc = "jwks"
    /\ req' = [req EXCEPT ![p] =
            AfterVerifier([req[p] EXCEPT !.fetch = "failed"], JwksFailed)]
    /\ UNCHANGED <<jwt_secret, supabase_admin, jwks_cache, upstream, now, users, feed, manager>>

\* Faulty variant: the guard creates the missing profile, as GET /users/me does.
RequireRole_AutoCreate(p) ==
    /\ req[p].pc = "verified"
    /\ \E dbError \in BOOLEAN :
        req' = [req EXCEPT ![p] =
            [req[p] EXCEPT !.pc = "done",
                           !.query = IF ~supabase_admin THEN "-"
                                     ELSE IF dbError THEN "raised" ELSE "ok",
                           !.out = dependency(req[p].need, req[p].verifier.value,
                                              supabase_admin, users, dbError)]]
    /\ users' = IF supabase_admin /\ users[req[p].verifier.value["sub"]] = NoRow
                THEN [users EXCEPT ![req[p].verifier.value["sub"]] = "student"]
                ELSE users
    /\ UNCHANGED <<jwt_secret, supabase_admin, jwks_cache, upstream, now, feed, manager>>

\* Faulty variant: the guard remembers the role it returned for a subject
\* and uses it instead of the row while that request is still at hand.
RequireRole_Cached(p) ==
    /\ req[p].pc = "verified"
    /\ \E dbError \in BOOLEAN :
        LET sub    == req[p].verifier.value["sub"]
            cached == {q \in Procs \ {p} :
                        /\ req[q].pc = "done" /\ req[q].route = "role"
                        /\ Returned(req[q].out)
                        /\ req[q].out.value["sub"] = sub}
            table  == IF cached = {} THEN users
                      ELSE [users EXCEPT ![sub] =
                              req[CHOOSE q \in cached : TRUE].out.value["role"]]
        IN  req' = [req EXCEPT ![p] =
                [req[p] EXCEPT !.pc = "done",
                               !.query = IF ~supabase_admin THEN "-"
                                         ELSE IF dbError THEN "raised" ELSE "ok",
                               !.out = dependency(req[p].need, req[p].verifier.value,
                                                  supabase_admin, table, dbError)]]
    /\ UNCHANGED <<jwt_secret, supabase_admin, jwks_cache, upstream, now, users, feed, manager>>

\* The guard of a role-gated route runs on the verified claims.
RequireRole(p) ==
    /\ req[p].pc = "verified"
    /\ \E dbError \in BOOLEAN :
        req' = [req EXCEPT ![p] =
            [req[p] EXCEPT !.pc = "done",
                           !.query = IF ~supabase_admin THEN "-"
                                     ELSE IF dbError THEN "raised" ELSE "ok",
                           !.out = dependency(req[p].need, req[p].verifier.value,
                                              supabase_admin, users, dbError)]]
    /\ UNCHANGED <<jwt_secret, supabase_admin, jwks_cache, upstream, now, users, feed, manager>>

\* Faulty variant: the new profile takes the role the token claims.
new_user_TokenRole(current_user) ==
    [id |-> current_user["sub"],
     email |-> IF "email" \in DOMAIN current_user
               THEN current_user["email"] ELSE "None",
     role |-> IF "role" \in DOMAIN current_user
              THEN current_user["role"] ELSE "student",
     first_name |-> "New", last_name |-> "User"]

\* users.read_users_me lines 26-34: the profile created for a subject
\* without a row; email is None when the token has no email claim.
new_user(current_user) ==
    [id |-> current_user["sub"],
     email |-> IF "email" \in DOMAIN current_user
               THEN current_user["email"] ELSE "None",
     role |-> "student", first_name |-> "New", last_name |-> "User"]

\* The faults the database calls of read_users_me may meet.
MeFaults(absent) ==
    {"none", "select_raised"}
    \cup (IF absent THEN {"insert_empty", "insert_raised"} ELSE {})

\* users.read_users_me, lines 14-50, on the verified claims.  Of a stored
\* row the model keeps the id and the role.  `if not user_id` (line 21) is
\* never true: str() of a verified sub is not empty.
read_users_me(current_user, admin, table, fault) ==
    LET db      == get_supabase_admin(admin)
        user_id == current_user["sub"]
    IN  IF Raised(db) THEN db
        ELSE IF fault \in {"select_raised", "insert_raised"}
        THEN HTTPException(500, <<"Database error: ", "db error">>)
        ELSE IF table[user_id] # NoRow
        THEN Return([id |-> user_id, role |-> table[user_id]])
        ELSE IF fault = "insert_empty"
        THEN HTTPException(500, <<"Could not create user profile">>)
        ELSE Return(new_user(current_user))

\* GET /users/me runs on the verified claims; line 37 inserts the profile.
UsersMe(p) ==
    /\ req[p].pc = "verified" /\ req[p].route = "users_me"
    /\ LET user == req[p].verifier.value
           absent == users[user["sub"]] = NoRow
       IN  \E fault \in MeFaults(absent) :
            /\ req' = [req EXCEPT ![p] =
                    [req[p] EXCEPT !.pc = "done",
                                   !.query = IF ~supabase_admin THEN "-"
                                             ELSE IF fault = "none" THEN "ok"
                                             ELSE "raised",
                                   !.out = read_users_me(user, supabase_admin,
                                                         users, fault)]]
            /\ users' = IF supabase_admin /\ absent /\ fault = "none"
                        THEN [users EXCEPT ![user["sub"]] = new_user(user).role]
                        ELSE users
    /\ UNCHANGED <<jwt_secret, supabase_admin, jwks_cache, upstream, now, feed, manager>>

\* The rows a select on a likes table returns: one record per row.
LikeRows(table) ==
    {r \in [item : {x[1] : x \in DOMAIN table}, user_id : Subjects, n : 1..MaxLikes] :
        r.n <= table[<<r.item, r.user_id>>]}

\* The entry of likes_map / comment_likes_map for one item (lines 88-104);
\* an item without rows has the default [].
LikesOf(rows, item) == {r \in rows : r.item = item}

\* Faulty variant: a like of any user counts as mine.
LikedByMe_AnyUser(likes, user_id) == likes # {}

\* any(l["user_id"] == user_id for l in likes) if user_id else False
LikedByMe(likes, user_id) ==
    user_id # "None" /\ \E l \in likes : l.user_id = user_id

\* Lines 108-116: the comments of post pid, enriched, by created_at.
EnrichedComments(f, pid, cl_rows, user_id) ==
    LET mine == SelectSeq(CommentOrder,
                    LAMBDA c : [id |-> c, post_id |-> pid] \in f.comments)
    IN  [j \in 1..Len(mine) |->
            [id |-> mine[j],
             like_count  |-> Cardinality(LikesOf(cl_rows, mine[j])),
             liked_by_me |-> LikedByMe(LikesOf(cl_rows, mine[j]), user_id)]]

\* posts.get_posts, lines 40-131.  current_user is the outcome of
\* get_current_user_optional; fault: "raised" when a query raised,
\* "comment_likes_raised" when the comment_likes query alone did, which
\* lines 85-96 swallow.  Of a post and a comment the model keeps the id and
\* the like fields.
get_posts(current_user, admin, f, fault) ==
    LET db      == get_supabase_admin(admin)
        posts   == SelectSeq(PostOrder, LAMBDA x : x \in f.posts)
        user_id == IF Returned(current_user) THEN current_user.value["sub"] ELSE "None"
        l_rows  == LikeRows(f.likes)
        cl_rows == IF fault = "comment_likes_raised" THEN {} ELSE LikeRows(f.comment_likes)
    IN  IF Raised(db) THEN db
        ELSE IF fault = "raised" THEN HTTPException(500, <<"db error">>)
        ELSE Return([i \in 1..Len(posts) |->
                [id |-> posts[i],
                 comments    |-> EnrichedComments(f, posts[i], cl_rows, user_id),
                 like_count  |-> Cardinality(LikesOf(l_rows, posts[i])),
                 liked_by_me |-> LikedByMe(LikesOf(l_rows, posts[i]), user_id)]])

\* GET /posts/ runs with the identity get_current_user_optional gave.
GetPosts(p) ==
    /\ req[p].pc = "verified" /\ req[p].route = "posts"
    /\ \E fault \in {"none", "raised", "comment_likes_raised"} :
        req' = [req EXCEPT ![p] =
            [req[p] EXCEPT !.pc = "done",
                           !.query = IF ~supabase_admin THEN "-"
                                     ELSE IF fault = "none" THEN "ok" ELSE fault,
                           !.out = get_posts(IF req[p].cred.present
                                             THEN OptionalResult(req[p].verifier)
                                             ELSE ReturnNone,
                                             supabase_admin, feed, fault)]]
    /\ UNCHANGED <<jwt_secret, supabase_admin, jwks_cache, upstream, now, users, feed, manager>>

\* A request for a route with a path parameter arrives: as Start, with the
\* id of the path kept in the request.
StartOn(p, routes, items, creds) ==
    /\ req[p].pc = "idle"
    /\ \E route \in routes, item \in items, cred \in creds :
        LET r == [Idle EXCEPT !.route = route, !.item = item, !.cred = cred]
            v == BeforeJwks(cred, jwt_secret, jwks_cache, now)
        IN  req' = [req EXCEPT ![p] =
                IF v = AwaitJwks
                THEN [r EXCEPT !.pc = "jwks"]
                ELSE IF ReachesJwks(cred, jwt_secret, now)
                THEN AfterVerifier([r EXCEPT !.fetch = "cached",
                                             !.jwks = jwks_cache.keys], v)
                ELSE AfterVerifier(r, v)]
    /\ UNCHANGED <<jwt_secret, supabase_admin, jwks_cache, upstream, now, users, feed, manager>>

\* The table toggle_like (likes) or toggle_comment_like (comment_likes) works on.
LikeTable(route) == IF route = "like" THEN "likes" ELSE "comment_likes"

\* The (item, user_id) pair of a like request.
LikeKey(r) == <<r.item, r.verifier.value["sub"]>>

\* Number of rows of a likes table for one item, over the users us.
RECURSIVE CountRows(_, _, _)
CountRows(table, item, us) ==
    IF us = {} THEN 0
    ELSE LET u == CHOOSE u \in us : TRUE
         IN  table[<<item, u>>] + CountRows(table, item, us \ {u})

\* toggle_like line 179 (toggle_comment_like line 242): the select that
\* looks for a row of this user; its result decides the branch.
LikeSelect(p) ==
    /\ req[p].pc = "verified" /\ req[p].route \in {"like", "comment_like"}
    /\ req' = [req EXCEPT ![p] =
            IF ~supabase_admin
            THEN [req[p] EXCEPT !.pc = "done",
                                !.out = get_supabase_admin(supabase_admin)]
            ELSE [req[p] EXCEPT !.pc = "selected",
                                !.query = IF feed[LikeTable(req[p].route)][LikeKey(req[p])] > 0
                                          THEN "found" ELSE "absent"]]
    /\ UNCHANGED <<jwt_secret, supabase_admin, jwks_cache, upstream, now, users, feed, manager>>

\* Lines 181-188 (244-251): delete every row of the pair, or insert one.
LikeWrite(p) ==
    /\ req[p].pc = "selected"
    /\ req[p].query = "absent"
            => feed[LikeTable(req[p].route)][LikeKey(req[p])] < MaxLikes
    /\ feed' = [feed EXCEPT ![LikeTable(req[p].route)][LikeKey(req[p])] =
                    IF req[p].query = "found" THEN 0 ELSE @ + 1]
    /\ req' = [req EXCEPT ![p] = [req[p] EXCEPT !.pc = "written"]]
    /\ UNCHANGED <<jwt_secret, supabase_admin, jwks_cache, upstream, now, users, manager>>

\* Lines 190-193 (253-256): the count query and the response.
LikeCount(p) ==
    /\ req[p].pc = "written"
    /\ req' = [req EXCEPT ![p] =
            [req[p] EXCEPT !.pc = "done",
                !.out = Return([liked |-> req[p].query = "absent",
                                like_count |-> CountRows(feed[LikeTable(req[p].route)],
                                                         req[p].item, Subjects)])]]
    /\ UNCHANGED <<jwt_secret, supabase_admin, jwks_cache, upstream, now, users, feed, manager>>

\* postgrest single(): the one row of the result; a result of no row (or
\* of several) makes execute() raise APIError.
single(rows) ==
    IF Cardinality(rows) = 1
    THEN [raised |-> FALSE, data |-> CHOOSE r \in rows : TRUE]
    ELSE [raised |-> TRUE, data |-> [id |-> "-", user_id |-> "-", content |-> "-"]]

\* res.data of a result without a row (None).
NoData == [id |-> "None", user_id |-> "None", content |-> "None"]

\* db.from_("posts").select("*").eq("id", post_id): the rows of that id.
PostRows(f, post_id) ==
    {[id |-> i, user_id |-> f.user_id[i], content |-> f.content[i]] :
        i \in f.posts \cap {post_id}}

\* posts.update_post lines 270-277 and delete_post lines 298-305: the
\* lookup of the post and the two refusals; an exception of the lookup
\* leaves through `except Exception` (lines 288-289, 311-312) as a 500.
update_post_check(verb, res, user_id, dbError) ==
    IF dbError \/ res.raised THEN HTTPException(500, <<"db error">>)
    ELSE IF res.data = NoData THEN HTTPException(404, <<"Post not found">>)
    ELSE IF res.data.user_id # user_id
    THEN HTTPException(403, <<"Not authorized to ", verb, " this post">>)
    ELSE Fallthrough

\* The verb of the refusal: "edit" for update_post, "delete" for delete_post.
VerbOf(route) == IF route = "update_post" THEN "edit" ELSE "delete"

\* Lines 270-277 (298-305): the first database call of the handler.
PostCheck(p) ==
    /\ req[p].pc = "verified" /\ req[p].route \in {"update_post", "delete_post"}
    /\ \E dbError \in BOOLEAN :
        LET v == update_post_check(VerbOf(req[p].route),
                                   single(PostRows(feed, req[p].item)),
                                   req[p].verifier.value["sub"], dbError)
        IN  req' = [req EXCEPT ![p] =
                IF ~supabase_admin
                THEN [req[p] EXCEPT !.pc = "done",
                                    !.out = get_supabase_admin(supabase_admin)]
                ELSE IF v = Fallthrough
                THEN [req[p] EXCEPT !.pc = "checked", !.query = "found"]
                ELSE [req[p] EXCEPT !.pc = "done", !.out = v,
                        !.query = IF dbError THEN "raised"
                                  ELSE IF PostRows(feed, req[p].item) = {}
                                  THEN "absent" ELSE "found"]]
    /\ UNCHANGED <<jwt_secret, supabase_admin, jwks_cache, upstream, now, users, feed, manager>>

\* update_post lines 279-285: the update of the rows of that id; an empty
\* result is answered with 400.
PostUpdate(p) ==
    /\ req[p].pc = "checked" /\ req[p].route = "update_post"
    /\ \E content \in Contents :
        /\ feed' = IF req[p].item \in feed.posts
                   THEN [feed EXCEPT !.content[req[p].item] = content]
                   ELSE feed
        /\ req' = [req EXCEPT ![p] =
                [req[p] EXCEPT !.pc = "done",
                    !.out = IF PostRows(feed', req[p].item) = {}
                            THEN HTTPException(400, <<"Failed to update post">>)
                            ELSE Return(CHOOSE r \in PostRows(feed', req[p].item) : TRUE)]]
    /\ UNCHANGED <<jwt_secret, supabase_admin, jwks_cache, upstream, now, users, manager>>

\* delete_post lines 307-308: the rows of that id are deleted from posts.
PostDelete(p) ==
    /\ req[p].pc = "checked" /\ req[p].route = "delete_post"
    /\ feed' = [feed EXCEPT !.posts = @ \ {req[p].item}]
    /\ req' = [req EXCEPT ![p] =
            [req[p] EXCEPT !.pc = "done",
                !.out = Return([message |-> "Post deleted successfully"])]]
    /\ UNCHANGED <<jwt_secret, supabase_admin, jwks_cache, upstream, now, users, manager>>

\* The response is sent; the task ends.
Respond(p) ==
    /\ req[p].pc = "done"
    /\ req' = [req EXCEPT ![p] = Idle]
    /\ UNCHANGED <<jwt_secret, supabase_admin, jwks_cache, upstream, now, users, feed, manager>>

(* posts.ConnectionManager and the /posts/ws endpoint *)

\* list.remove(w): the list without its first occurrence of w.
Remove(l, w) ==
    LET i == CHOOSE j \in 1..Len(l) : l[j] = w /\ \A k \in 1..(j-1) : l[k] # w
    IN  SubSeq(l, 1, i-1) \o SubSeq(l, i+1, Len(l))

\* ConnectionManager.disconnect, lines 26-28.
disconnect(l, w) ==
    IF \E j \in 1..Len(l) : l[j] = w THEN Remove(l, w) ELSE l

\* The elements of a list.
Range(l) == {l[j] : j \in 1..Len(l)}

\* `for connection in self.active_connections` (line 31): the list iterator
\* holds the number i of items it has yielded and, asked for the next one,
\* yields item i+1 of the list as it is then, or ends the loop.
NextConnection(b, l) ==
    IF b.i < Len(l)
    THEN [b EXCEPT !.pc = "sending", !.current = l[b.i + 1], !.i = b.i + 1]
    ELSE [b EXCEPT !.pc = "done", !.current = "-"]

\* websocket_endpoint line 349, connect line 23: the handshake is awaited.
Accept(w) ==
    /\ ws[w] = "new"
    /\ ws' = [ws EXCEPT ![w] = "accepting"]
    /\ UNCHANGED <<jwt_secret, supabase_admin, jwks_cache, upstream, now, users,
                   req, feed, active_connections, bcast>>

\* connect line 24: accepted, the socket is appended and the endpoint waits
\* in receive_text (line 353).
Connected(w) ==
    /\ ws[w] = "accepting"
    /\ ws' = [ws EXCEPT ![w] = "open"]
    /\ active_connections' = Append(active_connections, w)
    /\ UNCHANGED <<jwt_secret, supabase_admin, jwks_cache, upstream, now, users,
                   req, feed, bcast>>

\* connect line 23: the handshake fails; accept raises and the endpoint ends.
AcceptFailed(w) ==
    /\ ws[w] = "accepting"
    /\ ws' = [ws EXCEPT ![w] = "closed"]
    /\ UNCHANGED <<jwt_secret, supabase_admin, jwks_cache, upstream, now, users,
                   req, feed, active_connections, bcast>>

\* websocket_endpoint lines 354-357: receive_text raises, the socket is
\* removed.  bcast.stayed, kept for the properties only, is the set of
\* sockets listed since the broadcast began.
Disconnect(w) ==
    /\ ws[w] = "open"
    /\ ws' = [ws EXCEPT ![w] = "closed"]
    /\ active_connections' = disconnect(active_connections, w)
    /\ bcast' = [bcast EXCEPT !.stayed = @ \ {w}]
    /\ UNCHANGED <<jwt_secret, supabase_admin, jwks_cache, upstream, now, users,
                   req, feed>>

\* create_post line 162 calls broadcast: the loop of line 31 takes its
\* first item and awaits send_json (line 33).
BroadcastStart ==
    /\ bcast.pc = "idle"
    /\ bcast' = NextConnection([NoBroadcast EXCEPT !.stayed = Range(active_connections)],
                               active_connections)
    /\ UNCHANGED <<jwt_secret, supabase_admin, jwks_cache, upstream, now, users,
                   req, feed, active_connections, ws>>

\* Lines 32-36: the awaited send_json returns or raises; the loop goes on
\* to its next item either way.
BroadcastSend ==
    /\ bcast.pc = "sending"
    /\ \E raised \in BOOLEAN :
        bcast' = NextConnection(
                    [bcast EXCEPT !.attempted = @ \cup {bcast.current},
                                  !.failed = IF raised THEN @ \cup {bcast.current} ELSE @],
                    active_connections)
    /\ UNCHANGED <<jwt_secret, supabase_admin, jwks_cache, upstream, now, users,
                   req, feed, active_connections, ws>>

\* broadcast returns to create_post.
BroadcastEnd ==
    /\ bcast.pc = "done"
    /\ bcast' = NoBroadcast
    /\ UNCHANGED <<jwt_secret, supabase_admin, jwks_cache, upstream, now, users,
                   req, feed, active_connections, ws>>

(* Environment *)

Tick ==
    /\ now < MaxTime
    /\ now' = now + 1
    /\ UNCHANGED <<jwt_secret, supabase_admin, jwks_cache, upstream, users, req, feed, manager>>

\* The identity provider publishes another key list.
Rotate ==
    /\ \E ks \in KeyLists \ {upstream} : upstream' = ks
    /\ UNCHANGED <<jwt_secret, supabase_admin, jwks_cache, now, users, req, feed, manager>>

\* The identity provider replaces its key list by another list of keys.
RotateKeys ==
    /\ \E ks \in KeyLists \ {<<>>, upstream} : upstream' = ks
    /\ UNCHANGED <<jwt_secret, supabase_admin, jwks_cache, now, users, req, feed, manager>>

\* The users table changes outside the guard (sign-up, an administrator).
WriteUser ==
    /\ \E u \in Subjects, r \in PersistedRoles \cup {NoRow} :
        /\ users[u] # r
        /\ users' = [users EXCEPT ![u] = r]
    /\ UNCHANGED <<jwt_secret, supabase_admin, jwks_cache, upstream, now, req, feed, manager>>

---------------------------------------------------------------------------
(* Specification of the token verifier: one request at a time on the       *)
(* plain and the optional routes.                                          *)

Init ==
    /\ jwt_secret \in {"", "s1"}
    /\ supabase_admin = TRUE
    /\ jwks_cache = CacheNone
    /\ upstream \in KeyLists
    /\ now = 0
    /\ users = [u \in Subjects |-> NoRow]
    /\ req = [p \in Procs |-> Idle]
    /\ ManagerInit
    /\ feed = EmptyFeed

Next ==
    \/ Start("p1", {"protected", "optional"}, {"-"}, CredentialsOver(VerifyPayloads))
    \/ FetchOk("p1")
    \/ FetchFail("p1")
    \/ Respond("p1")
    \/ Tick
    \/ Rotate

Spec == Init /\ [][Next]_vars

(* Specification of the role guard: requests to role-gated routes, with    *)
(* the secret configured.                                                  *)

InitRole ==
    /\ jwt_secret = "s1"
    /\ supabase_admin \in BOOLEAN
    /\ jwks_cache = CacheNone
    /\ upstream = KeyList(MaxKeys)
    /\ now = 0
    /\ users \in [Subjects -> PersistedRoles \cup {NoRow}]
    /\ req = [p \in Procs |-> Idle]
    /\ ManagerInit
    /\ feed = EmptyFeed

NextRole ==
    \/ Start("p1", {"role"}, {"student", "teacher"}, CredentialsOver(RolePayloads))
    \/ FetchOk("p1")
    \/ FetchFail("p1")
    \/ RequireRole("p1")
    \/ Respond("p1")
    \/ WriteUser

SpecRole == InitRole /\ [][NextRole]_vars

(* Specification of GET /users/me, with the secret configured.             *)

\* Payloads of the tokens presented to GET /users/me.
MePayloads ==
    PayloadsOver({"sub", "email"},
                 Subjects, {SUPABASE_AUDIENCE}, {MaxTime}, {"student"}, Emails)

InitMe ==
    /\ jwt_secret = "s1"
    /\ supabase_admin \in BOOLEAN
    /\ jwks_cache = CacheNone
    /\ upstream = KeyList(MaxKeys)
    /\ now = 0
    /\ users \in [Subjects -> PersistedRoles \cup {NoRow}]
    /\ req = [p \in Procs |-> Idle]
    /\ ManagerInit
    /\ feed = EmptyFeed

NextMe ==
    \/ Start("p1", {"users_me"}, {"-"}, CredentialsOver(MePayloads))
    \/ FetchOk("p1")
    \/ FetchFail("p1")
    \/ UsersMe("p1")
    \/ Respond("p1")
    \/ WriteUser

SpecMe == InitMe /\ [][NextMe]_vars

(* Specification of concurrent first calls of _get_jwks: two requests in   *)
(* flight, no secret configured, a provider that always publishes at       *)
(* least one key.  A fetched list is then never falsy, so two calls that   *)
(* both fetched were both waiting for the provider at the same time.       *)

\* RS256 tokens naming a provider key and signed by a provider key.
ConcCredentials ==
    {Credentials(JWT([alg |-> "RS256", kid |-> k], [sub |-> "u1"], k2)) :
        k \in Kids, k2 \in Kids}

InitConc ==
    /\ jwt_secret = ""
    /\ supabase_admin = TRUE
    /\ jwks_cache = CacheNone
    /\ upstream \in KeyLists \ {<<>>}
    /\ now = 0
    /\ users = [u \in Subjects |-> NoRow]
    /\ req = [p \in Procs |-> Idle]
    /\ ManagerInit
    /\ feed = EmptyFeed

NextConc ==
    \/ \E p \in Procs : Start(p, {"protected"}, {"-"}, ConcCredentials)
    \/ \E p \in Procs : FetchOk(p)
    \/ \E p \in Procs : FetchFail(p)
    \/ \E p \in Procs : Respond(p)
    \/ RotateKeys

SpecConc == InitConc /\ [][NextConc]_vars

(* Specification of the feed: GET /posts/ over every state of the tables,  *)
(* without a token, with a valid one and with an invalid one.              *)

PostsCredentials ==
    {NoCredentials, Credentials(GarbageToken)}
    \cup {Credentials(JWT([alg |-> "HS256"], [sub |-> u], k)) :
            u \in Subjects, k \in Secrets}

InitPosts ==
    /\ jwt_secret = "s1"
    /\ supabase_admin \in BOOLEAN
    /\ jwks_cache = CacheNone
    /\ upstream = KeyList(MaxKeys)
    /\ now = 0
    /\ users = [u \in Subjects |-> NoRow]
    /\ req = [p \in Procs |-> Idle]
    /\ ManagerInit
    /\ feed \in {f \in Feeds : WellFormedFeed(f)}

NextPosts ==
    \/ Start("p1", {"posts"}, {"-"}, PostsCredentials)
    \/ FetchOk("p1")
    \/ FetchFail("p1")
    \/ GetPosts("p1")
    \/ Respond("p1")

SpecPosts == InitPosts /\ [][NextPosts]_vars

(* Specification of the key set cache under concurrent requests, with a    *)
(* provider whose key list may change to any list, the empty one included. *)

InitCache ==
    /\ jwt_secret = ""
    /\ supabase_admin = TRUE
    /\ jwks_cache = CacheNone
    /\ upstream \in KeyLists
    /\ now = 0
    /\ users = [u \in Subjects |-> NoRow]
    /\ req = [p \in Procs |-> Idle]
    /\ ManagerInit
    /\ feed = EmptyFeed

NextCache ==
    \/ \E p \in Procs : Start(p, {"protected"}, {"-"}, ConcCredentials)
    \/ \E p \in Procs : FetchOk(p)
    \/ \E p \in Procs : FetchFail(p)
    \/ \E p \in Procs : Respond(p)
    \/ Rotate

SpecCache == InitCache /\ [][NextCache]_vars

(* Specification of the role guard over several requests: two requests    *)
(* in flight present tokens of one subject while the users table changes.  *)

\* Tokens of subject u1 signed with the configured secret, with and without
\* a role claim.
StaleCredentials ==
    {Credentials(JWT([alg |-> "HS256"], pl, "s1")) :
        pl \in {[sub |-> "u1"], [sub |-> "u1", role |-> "teacher"]}}

InitStale ==
    /\ jwt_secret = "s1"
    /\ supabase_admin \in BOOLEAN
    /\ jwks_cache = CacheNone
    /\ upstream = KeyList(MaxKeys)
    /\ now = 0
    /\ users \in [Subjects -> PersistedRoles \cup {NoRow}]
    /\ req = [p \in Procs |-> Idle]
    /\ ManagerInit
    /\ feed = EmptyFeed

NextStale ==
    \/ \E p \in Procs : Start(p, {"role"}, {"student", "teacher"}, StaleCredentials)
    \/ \E p \in Procs : RequireRole(p)
    \/ \E p \in Procs : Respond(p)
    \/ WriteUser

SpecStale == InitStale /\ [][NextStale]_vars

(* Specification of repeated verification: two requests present the same  *)
(* few tokens while the clock and the provider's key list move.            *)

\* Tokens of subject u1 that expire at time 0 or never, signed with the
\* secret or by the first provider key.
PureCredentials ==
    {Credentials(JWT([alg |-> "HS256"], [sub |-> "u1", exp |-> 0], "s1")),
     Credentials(JWT([alg |-> "RS256", kid |-> "k1"], [sub |-> "u1", exp |-> 0], "k1")),
     Credentials(JWT([alg |-> "RS256", kid |-> "k1"], [sub |-> "u1"], "k1"))}

InitPure ==
    /\ jwt_secret \in {"", "s1"}
    /\ supabase_admin = TRUE
    /\ jwks_cache = CacheNone
    /\ upstream \in KeyLists
    /\ now = 0
    /\ users = [u \in Subjects |-> NoRow]
    /\ req = [p \in Procs |-> Idle]
    /\ ManagerInit
    /\ feed = EmptyFeed

NextPure ==
    \/ \E p \in Procs : Start(p, {"protected"}, {"-"}, PureCredentials)
    \/ \E p \in Procs : FetchOk(p)
    \/ \E p \in Procs : FetchFail(p)
    \/ \E p \in Procs : Respond(p)
    \/ Tick
    \/ Rotate

SpecPure == InitPure /\ [][NextPure]_vars

(* Specification of the like toggles: two requests in flight, each a       *)
(* sequence of three database calls; the calls of requests served at the   *)
(* same time by different workers of the application interleave.           *)

\* Valid tokens of the two subjects.
LikeCredentials ==
    {Credentials(JWT([alg |-> "HS256"], [sub |-> u], "s1")) : u \in Subjects}

InitLikes ==
    /\ jwt_secret = "s1"
    /\ supabase_admin = TRUE
    /\ jwks_cache = CacheNone
    /\ upstream = KeyList(MaxKeys)
    /\ now = 0
    /\ users = [u \in Subjects |-> NoRow]
    /\ req = [p \in Procs |-> Idle]
    /\ ManagerInit
    /\ feed = [EmptyFeed EXCEPT !.posts = {"p1"},
                                !.comments = {[id |-> "c1", post_id |-> "p1"]}]

NextLikes ==
    \/ \E p \in Procs : StartOn(p, {"like"}, {"p1"}, LikeCredentials)
    \/ \E p \in Procs : StartOn(p, {"comment_like"}, {"c1"}, LikeCredentials)
    \/ \E p \in Procs : LikeSelect(p)
    \/ \E p \in Procs : LikeWrite(p)
    \/ \E p \in Procs : LikeCount(p)
    \/ \E p \in Procs : Respond(p)

SpecLikes == InitLikes /\ [][NextLikes]_vars

(* Specification of profile creation and the role guard together: one     *)
(* request to GET /users/me and one to a role-gated route, and no other    *)
(* writer of the users table.                                              *)

\* Valid tokens of the two subjects, without a role claim and claiming the
\* role "teacher".
ProfileCredentials ==
    {Credentials(JWT([alg |-> "HS256"], pl, "s1")) :
        pl \in UNION {{[sub |-> u], [sub |-> u, role |-> "teacher"],
                       [sub |-> u, role |-> "teacher", email |-> "e1"]} :
                        u \in Subjects}}

InitProfile ==
    /\ jwt_secret = "s1"
    /\ supabase_admin \in BOOLEAN
    /\ jwks_cache = CacheNone
    /\ upstream = KeyList(MaxKeys)
    /\ now = 0
    /\ users \in [Subjects -> PersistedRoles \cup {NoRow}]
    /\ req = [p \in Procs |-> Idle]
    /\ ManagerInit
    /\ feed = EmptyFeed

NextProfile ==
    \/ Start("p1", {"users_me"}, {"-"}, ProfileCredentials)
    \/ Start("p2", {"role"}, {"student", "teacher"}, ProfileCredentials)
    \/ UsersMe("p1")
    \/ RequireRole("p2")
    \/ \E p \in Procs : Respond(p)

SpecProfile == InitProfile /\ [][NextProfile]_vars

(* Specification of update_post and delete_post: two requests in flight,  *)
(* each a lookup followed by a write, on a table that holds post p1 of     *)
(* user u1 and no post p2.                                                 *)

InitEdit ==
    /\ jwt_secret = "s1"
    /\ supabase_admin \in BOOLEAN
    /\ jwks_cache = CacheNone
    /\ upstream = KeyList(MaxKeys)
    /\ now = 0
    /\ users = [u \in Subjects |-> NoRow]
    /\ req = [p \in Procs |-> Idle]
    /\ ManagerInit
    /\ feed = [EmptyFeed EXCEPT !.posts = {"p1"}]

NextEdit ==
    \/ \E p \in Procs :
            StartOn(p, {"update_post", "delete_post"}, PostIds, LikeCredentials)
    \/ \E p \in Procs : PostCheck(p)
    \/ \E p \in Procs : PostUpdate(p)
    \/ \E p \in Procs : PostDelete(p)
    \/ \E p \in Procs : Respond(p)

SpecEdit == InitEdit /\ [][NextEdit]_vars

(* Specification of the ConnectionManager: sockets connect to /posts/ws    *)
(* and disconnect while broadcasts run.                                    *)

InitSockets ==
    /\ jwt_secret = "s1"
    /\ supabase_admin = TRUE
    /\ jwks_cache = CacheNone
    /\ upstream = KeyList(MaxKeys)
    /\ now = 0
    /\ users = [u \in Subjects |-> NoRow]
    /\ req = [p \in Procs |-> Idle]
    /\ ManagerInit
    /\ feed = EmptyFeed

NextSockets ==
    \/ \E w \in Sockets : Accept(w)
    \/ \E w \in Sockets : Connected(w)
    \/ \E w \in Sockets : AcceptFailed(w)
    \/ \E w \in Sockets : Disconnect(w)
    \/ BroadcastStart
    \/ BroadcastSend
    \/ BroadcastEnd

SpecSockets == InitSockets /\ [][NextSockets]_vars

---------------------------------------------------------------------------
(* Properties of the token verifier, checked under Spec *)

TokenOf(p)  == req[p].cred.credentials
Verified(p) == req[p].pc \in {"verified", "done"} /\ req[p].verifier # NotCalled
IsAuthError(o) == Raised(o) /\ o.exc = "AuthError" /\ o.status_code = 401

\* C1 (as claimed): a request to a protected route without an Authorization
\* header ends in AuthError, status 401, and in nothing else.
C1_NoHeaderIs401 ==
    \A p \in Procs :
        (req[p].pc = "done" /\ req[p].route = "protected" /\ ~req[p].cred.present)
            => IsAuthError(req[p].out)

\* A token signed under HS256 with the configured secret that carries sub,
\* the audience "authenticated" and an expiration after the current time.
GoodHS256(p) ==
    /\ req[p].cred.present
    /\ jwt_secret # ""
    /\ TokenOf(p).form = "jwt"
    /\ TokenOf(p).header.alg = "HS256"
    /\ TokenOf(p).sig = jwt_secret
    /\ {"sub", "aud", "exp"} \subseteq DOMAIN TokenOf(p).payload
    /\ TokenOf(p).payload["aud"] = "authenticated"
    /\ TokenOf(p).payload["exp"] > now

\* C2: with a secret configured, every such token is accepted as soon as it
\* is presented, and the claims returned are the token's claims, each with
\* its original value.
C2_GoodHS256Accepted ==
    \A p \in Procs :
        (req[p].pc # "idle" /\ GoodHS256(p))
            => /\ Verified(p)
               /\ Returned(req[p].verifier)
               /\ DOMAIN req[p].verifier.value = DOMAIN TokenOf(p).payload
               /\ \A c \in DOMAIN TokenOf(p).payload :
                    req[p].verifier.value[c] = TokenOf(p).payload[c]

C2_Witness ==
    /\ req["p1"].pc = "done" /\ req["p1"].route = "protected"
    /\ GoodHS256("p1")
    /\ "email" \in DOMAIN TokenOf("p1").payload
    /\ Returned(req["p1"].out)

\* The token was signed by `key` under `alg` and says so in its header.
SignedBy(t, key, alg) ==
    t.form = "jwt" /\ t.header.alg = alg /\ t.sig = key /\ AlgOf(key) = alg

\* The token's signature verifies against neither the configured secret
\* nor any key of the cached key set.
NoKeyVerifies(p) ==
    /\ ~(jwt_secret # "" /\ SignedBy(TokenOf(p), jwt_secret, "HS256"))
    /\ \A i \in 1..Len(jwks_cache.keys) :
         ~SignedBy(TokenOf(p), jwks_cache.keys[i].kid, "RS256")

\* C3: a token whose signature verifies against neither the secret nor a
\* cached key is never accepted: the verifier ends in AuthError (401),
\* whatever the claims, the configuration and the kid.
C3_BadSignatureRejected ==
    \A p \in Procs :
        (Verified(p) /\ req[p].cred.present /\ NoKeyVerifies(p))
            => IsAuthError(req[p].verifier)

\* A well-formed, unexpired token with sub and a kid the cache holds, signed
\* by a provider key the cache does not hold, was rejected.
C3_Witness ==
    /\ req["p1"].pc = "done" /\ req["p1"].cred.present
    /\ NoKeyVerifies("p1")
    /\ TokenOf("p1").form = "jwt"
    /\ TokenOf("p1").header.alg = "RS256"
    /\ "kid" \in DOMAIN TokenOf("p1").header
    /\ \E i \in 1..Len(jwks_cache.keys) :
         jwks_cache.keys[i].kid = TokenOf("p1").header["kid"]
    /\ DOMAIN TokenOf("p1").payload = {"sub", "aud", "exp", "email"}
    /\ TokenOf("p1").payload["aud"] = "authenticated"
    /\ TokenOf("p1").payload["exp"] > now
    /\ IsAuthError(req["p1"].verifier)

\* The token's expiration lay in the past when the verifier ended.
ExpiredAtVerdict(p) ==
    /\ req[p].cred.present
    /\ "exp" \in DOMAIN TokenOf(p).payload
    /\ TokenOf(p).payload["exp"] < req[p].at

\* C4: a token whose expiration is in the past is never accepted, also when
\* its signature is valid for one of the strategies: AuthError (401).
C4_ExpiredRejected ==
    \A p \in Procs :
        (Verified(p) /\ ExpiredAtVerdict(p)) => IsAuthError(req[p].verifier)

\* An expired token that bears a valid signature was rejected: one signed
\* with the secret, or one signed by a cached provider key named by its kid.
C4_Witness ==
    /\ req["p1"].pc = "done" /\ ExpiredAtVerdict("p1")
    /\ "sub" \in DOMAIN TokenOf("p1").payload
    /\ \/ jwt_secret # "" /\ SignedBy(TokenOf("p1"), jwt_secret, "HS256")
       \/ /\ "kid" \in DOMAIN TokenOf("p1").header
          /\ SignedBy(TokenOf("p1"), TokenOf("p1").header["kid"], "RS256")
          /\ \E i \in 1..Len(jwks_cache.keys) :
                jwks_cache.keys[i].kid = TokenOf("p1").header["kid"]
    /\ IsAuthError(req["p1"].verifier)

\* Signed with the configured secret, but without sub.
HS256NoSub(p) ==
    /\ req[p].cred.present
    /\ jwt_secret # ""
    /\ SignedBy(TokenOf(p), jwt_secret, "HS256")
    /\ "sub" \notin DOMAIN TokenOf(p).payload

\* No key of the cached key set has the kid of the token's header.
NoMatchingKid(p) ==
    \A i \in 1..Len(jwks_cache.keys) :
        ~("kid" \in DOMAIN TokenOf(p).header
            /\ jwks_cache.keys[i].kid = TokenOf(p).header["kid"])

\* C5: a token signed with the secret but without sub is not accepted by
\* strategy 1; the verifier goes on to strategy 2 and, when the key set
\* has no key with the header's kid, ends in AuthError (401) with a cause
\* strategy 2 gives.
C5_NoSubFallsThrough ==
    \A p \in Procs :
        (req[p].pc # "idle" /\ HS256NoSub(p))
            => /\ ~Returned(req[p].verifier)
               /\ (Verified(p) /\ NoMatchingKid(p))
                    => /\ IsAuthError(req[p].verifier)
                       /\ req[p].verifier.detail[1] = "Authentication failed: "

\* Such a token, with valid audience and expiration, was rejected after the
\* key set had been fetched and held no key with its kid.
C5_Witness ==
    /\ req["p1"].pc = "done" /\ HS256NoSub("p1") /\ NoMatchingKid("p1")
    /\ {"aud", "exp"} \subseteq DOMAIN TokenOf("p1").payload
    /\ TokenOf("p1").payload["aud"] = "authenticated"
    /\ TokenOf("p1").payload["exp"] >= now
    /\ "kid" \in DOMAIN TokenOf("p1").header
    /\ jwks_cache.set /\ jwks_cache.keys # <<>>
    /\ IsAuthError(req["p1"].verifier)

\* C10: get_current_user_optional never raises.  Without credentials it
\* returns None and the verifier is not invoked; with credentials it returns
\* what the verifier returned, and None when the verifier raised.
C10_OptionalNeverFails ==
    \A p \in Procs :
        (req[p].route = "optional" /\ req[p].pc = "done")
            => /\ ~Raised(req[p].out)
               /\ ~req[p].cred.present
                    => (req[p].out = ReturnNone /\ req[p].verifier = NotCalled)
               /\ req[p].cred.present
                    => /\ req[p].verifier # NotCalled
                       /\ Returned(req[p].verifier) => req[p].out = req[p].verifier
                       /\ Raised(req[p].verifier) => req[p].out = ReturnNone

\* The wrapper swallowed a verifier failure.
C10_Witness ==
    /\ req["p1"].route = "optional" /\ req["p1"].pc = "done"
    /\ req["p1"].cred.present
    /\ IsAuthError(req["p1"].verifier)
    /\ req["p1"].out = ReturnNone

\* C11: for every presented token, every configuration and every cache
\* state, get_current_user ends either by returning a claims set or by
\* raising AuthError (401) with a cause string; no other exception and no
\* other status leaves the verifier.
C11_TwoOutcomes ==
    \A p \in Procs :
        (Verified(p) /\ req[p].cred.present)
            => \/ /\ Returned(req[p].verifier)
                  /\ req[p].verifier.value = TokenOf(p).payload
               \/ /\ IsAuthError(req[p].verifier)
                  /\ req[p].verifier.detail # <<>>
                  /\ req[p].verifier.detail[1] \in
                        {"Invalid or expired authentication token: ",
                         "Authentication failed: ", "Invalid token payload"}

\* The three kinds of inner failure were normalized: a header that cannot be
\* parsed, a KeyError in the key lookup, a failed fetch of the key set.
C11_Witness ==
    /\ req["p1"].pc = "done" /\ req["p1"].route = "protected"
    /\ req["p1"].cred.present
    /\ IsAuthError(req["p1"].verifier)
    /\ \/ TokenOf("p1") = GarbageToken
       \/ req["p1"].fetch = "failed"
       \/ req["p1"].verifier.detail = <<"Authentication failed: ", "'kid'">>

\* The token is RS256, names a key of the list _get_jwks returned, is signed
\* by that key, and its aud and exp are acceptable at the verdict.
RS256Verifies(p) ==
    /\ req[p].cred.present
    /\ req[p].fetch \in {"cached", "ok"}
    /\ "kid" \in DOMAIN TokenOf(p).header
    /\ SignedBy(TokenOf(p), TokenOf(p).header["kid"], "RS256")
    /\ FindKey(req[p].jwks, TokenOf(p).header["kid"]) # 0
    /\ "aud" \in DOMAIN TokenOf(p).payload
            => TokenOf(p).payload["aud"] = SUPABASE_AUDIENCE
    /\ "exp" \in DOMAIN TokenOf(p).payload
            => TokenOf(p).payload["exp"] >= req[p].at

\* C12: every claims set get_current_user returns, by either strategy,
\* contains sub; a token the asymmetric strategy verifies that lacks sub
\* ends in AuthError "Invalid token payload".
C12_SubRequired ==
    \A p \in Procs :
        Verified(p)
            => /\ Returned(req[p].verifier)
                    => "sub" \in DOMAIN req[p].verifier.value
               /\ (RS256Verifies(p) /\ "sub" \notin DOMAIN TokenOf(p).payload)
                    => req[p].verifier = AuthError(<<"Invalid token payload">>)

\* A token without sub that the asymmetric strategy verified was rejected.
C12_Witness ==
    /\ req["p1"].pc = "done" /\ req["p1"].route = "protected"
    /\ RS256Verifies("p1")
    /\ "sub" \notin DOMAIN TokenOf("p1").payload
    /\ req["p1"].verifier = AuthError(<<"Invalid token payload">>)

\* C13 (as claimed): a token is accepted only if its aud claim equals
\* "authenticated" and its exp claim is in the future.
C13_AudAndExpRequired ==
    \A p \in Procs :
        (Verified(p) /\ Returned(req[p].verifier))
            => /\ "aud" \in DOMAIN TokenOf(p).payload
               /\ TokenOf(p).payload["aud"] = SUPABASE_AUDIENCE
               /\ "exp" \in DOMAIN TokenOf(p).payload
               /\ TokenOf(p).payload["exp"] > req[p].at

\* C13 (amended): a token is accepted only if its aud claim, when it has
\* one, equals "authenticated" and its exp claim, when it has one, is not
\* before the clock; a correctly signed token with another audience is
\* rejected with AuthError (401), by the asymmetric strategy with the cause
\* "Invalid audience" when it is not expired.
C13_AudAndExpWhenPresent ==
    \A p \in Procs :
        Verified(p)
            => /\ Returned(req[p].verifier)
                    => /\ "aud" \in DOMAIN TokenOf(p).payload
                            => TokenOf(p).payload["aud"] = SUPABASE_AUDIENCE
                       /\ "exp" \in DOMAIN TokenOf(p).payload
                            => TokenOf(p).payload["exp"] >= req[p].at
               /\ ( /\ req[p].cred.present
                    /\ "aud" \in DOMAIN TokenOf(p).payload
                    /\ TokenOf(p).payload["aud"] # SUPABASE_AUDIENCE )
                    => /\ IsAuthError(req[p].verifier)
                       /\ ( /\ req[p].fetch \in {"cached", "ok"}
                            /\ "kid" \in DOMAIN TokenOf(p).header
                            /\ SignedBy(TokenOf(p), TokenOf(p).header["kid"], "RS256")
                            /\ FindKey(req[p].jwks, TokenOf(p).header["kid"]) # 0
                            /\ "exp" \in DOMAIN TokenOf(p).payload
                                    => TokenOf(p).payload["exp"] >= req[p].at )
                            => req[p].verifier =
                                AuthError(<<"Invalid or expired authentication token: ",
                                            "Invalid audience">>)

\* A token signed with the configured secret that carries sub and neither
\* aud nor exp was accepted: the token tests/test_auth.py presents.
C13_Witness ==
    /\ req["p1"].pc = "done" /\ req["p1"].route = "protected"
    /\ req["p1"].cred.present
    /\ jwt_secret # "" /\ SignedBy(TokenOf("p1"), jwt_secret, "HS256")
    /\ "sub" \in DOMAIN TokenOf("p1").payload
    /\ "aud" \notin DOMAIN TokenOf("p1").payload
    /\ "exp" \notin DOMAIN TokenOf("p1").payload
    /\ req["p1"].verifier = Return(TokenOf("p1").payload)
    /\ req["p1"].out = req["p1"].verifier

\* C14 (as claimed): once a call of _get_jwks has completed a successful
\* fetch, whatever key list it received, no later call goes to the network:
\* no request that arrives afterwards comes to wait for the provider.
C14_NoFetchAfterSuccess ==
    [][\A p \in Procs :
        (jwks_cache.set /\ req[p].pc = "idle") => req'[p].pc # "jwks"]_vars

\* The cause strings of the key-not-found outcome of lines 81-88.
KeyNotFoundCauses ==
    {"Public key not found and no symmetric secret configured",
     "Authentication failed: No valid verification method found"}

\* C15: when the fetch of the key set fails, _get_jwks raises and returns
\* no key list; get_current_user ends in AuthError (401) whose cause is the
\* failure, not a key-not-found cause.
C15_FetchFailureIs401 ==
    \A p \in Procs :
        (Verified(p) /\ req[p].fetch = "failed")
            => /\ IsAuthError(req[p].verifier)
               /\ req[p].verifier.detail[1] = "Authentication failed: "
               /\ \A i \in 1..Len(req[p].verifier.detail) :
                    req[p].verifier.detail[i] \notin KeyNotFoundCauses
               /\ req[p].jwks = <<>>

\* The fetch failed for an RS256 token that names a key and has sub.
C15_Witness ==
    /\ req["p1"].pc = "done" /\ req["p1"].route = "protected"
    /\ req["p1"].fetch = "failed"
    /\ TokenOf("p1").form = "jwt" /\ TokenOf("p1").header.alg = "RS256"
    /\ "kid" \in DOMAIN TokenOf("p1").header
    /\ "sub" \in DOMAIN TokenOf("p1").payload
    /\ ~jwks_cache.set
    /\ req["p1"].verifier = AuthError(<<"Authentication failed: ", "key set unavailable">>)

\* The credentials hold a token that strategy 1 accepts at time t: signed
\* with the configured secret under HS256, with sub, and with aud and exp
\* acceptable where present.
SymmetricSucceeds(cred, t) ==
    /\ cred.present
    /\ jwt_secret # ""
    /\ SignedBy(cred.credentials, jwt_secret, "HS256")
    /\ "sub" \in DOMAIN cred.credentials.payload
    /\ "aud" \in DOMAIN cred.credentials.payload
            => cred.credentials.payload["aud"] = SUPABASE_AUDIENCE
    /\ "exp" \in DOMAIN cred.credentials.payload
            => cred.credentials.payload["exp"] >= t

\* C20: when the symmetric strategy succeeds and the payload has sub, the
\* verifier returns in the step in which the request arrives: _get_jwks is
\* not called, no fetch is started and the cache is left as it was.
C20_SymmetricReturnsAtOnce ==
    [][\A p \in Procs :
        (req[p].pc = "idle" /\ req'[p].pc # "idle"
            /\ SymmetricSucceeds(req'[p].cred, now))
            => /\ req'[p].pc # "jwks"
               /\ Returned(req'[p].verifier)
               /\ req'[p].verifier.value = req'[p].cred.credentials.payload
               /\ req'[p].fetch = "-" /\ req'[p].jwks = <<>>
               /\ jwks_cache' = jwks_cache]_vars

\* Such a token was accepted while the cache was still unset, with a kid in
\* its header that would have let strategy 2 look for a key.
C20_Witness ==
    /\ req["p1"].pc = "done" /\ req["p1"].route = "protected"
    /\ SymmetricSucceeds(req["p1"].cred, req["p1"].at)
    /\ "kid" \in DOMAIN TokenOf("p1").header
    /\ Returned(req["p1"].verifier)
    /\ req["p1"].fetch = "-"
    /\ ~jwks_cache.set

---------------------------------------------------------------------------
(* Properties of the role guard, checked under SpecRole *)

\* The step in which the guard of request p runs.
RoleStep(p) == req[p].pc = "verified" /\ req'[p].pc = "done"

\* The verified claims handed to the guard, and the persisted role of their
\* subject when the guard runs.
ClaimsOf(p)       == req[p].verifier.value
PersistedRole(p)  == users[ClaimsOf(p)["sub"]]

Contains(detail, x) == \E i \in 1..Len(detail) : detail[i] = x

Forbidden(o) == Raised(o) /\ o.exc = "HTTPException" /\ o.status_code = 403

\* C6: when the users query answers with a row whose role equals the
\* required role r, the guard returns the claims it was given with `role`
\* set to r, whatever `role` the token carried, and every other claim as is.
C6_MatchReturnsRole ==
    [][\A p \in Procs :
        (RoleStep(p) /\ req'[p].query = "ok" /\ PersistedRole(p) = req[p].need)
            => /\ Returned(req'[p].out)
               /\ DOMAIN req'[p].out.value = DOMAIN ClaimsOf(p) \cup {"role"}
               /\ req'[p].out.value["role"] = req[p].need
               /\ \A c \in DOMAIN ClaimsOf(p) \ {"role"} :
                    req'[p].out.value[c] = ClaimsOf(p)[c]]_vars

\* The token said "student", the row said "teacher", and the claims returned
\* for require_role("teacher") say "teacher".
C6_Witness ==
    /\ req["p1"].pc = "done" /\ req["p1"].route = "role"
    /\ req["p1"].need = "teacher" /\ req["p1"].query = "ok"
    /\ "role" \in DOMAIN req["p1"].verifier.value
    /\ req["p1"].verifier.value["role"] = "student"
    /\ Returned(req["p1"].out)
    /\ req["p1"].out.value["role"] = "teacher"

\* C7: when the row's role p differs from the required role r, also in case
\* only, the guard raises 403 with a message holding both r and p, and
\* returns no claims.
C7_MismatchForbidden ==
    [][\A p \in Procs :
        (/\ RoleStep(p) /\ req'[p].query = "ok"
         /\ PersistedRole(p) # NoRow /\ PersistedRole(p) # req[p].need)
            => /\ Forbidden(req'[p].out)
               /\ Contains(req'[p].out.detail, req[p].need)
               /\ Contains(req'[p].out.detail, PersistedRole(p))]_vars

\* require_role("teacher") met the row role "Teacher" and refused.
C7_Witness ==
    /\ req["p1"].pc = "done" /\ req["p1"].route = "role"
    /\ req["p1"].query = "ok"
    /\ Forbidden(req["p1"].out)
    /\ req["p1"].out.detail =
         <<"Access denied. Required role: ", "teacher", ", your role: ", "Teacher">>

ProfileNotFound ==
    HTTPException(403,
        <<"User profile not found in database. Please complete your profile setup first.">>)

\* C8: the guard never writes the users table, and whenever its query finds
\* no row for the subject it raises the same 403 that asks for profile
\* setup; so repeated calls with the row absent all fail alike.
C8_AbsentRowForbidden ==
    [][\A p \in Procs :
        RoleStep(p)
            => /\ users' = users
               /\ (req'[p].query = "ok" /\ PersistedRole(p) = NoRow)
                    => req'[p].out = ProfileNotFound]_vars

\* A guard run ended in the profile-setup failure and the row is still absent.
C8_Witness ==
    /\ req["p1"].pc = "done" /\ req["p1"].route = "role"
    /\ req["p1"].query = "ok"
    /\ req["p1"].out = ProfileNotFound
    /\ users[req["p1"].verifier.value["sub"]] = NoRow

\* The claims c with the role claim removed or set to any role.
RoleVariants(c) ==
    {Restrict(c, DOMAIN c \ {"role"})} \cup {SetRole(c, r) : r \in TokenRoles}

\* What a caller sees of a guard outcome: accepted or not, the role
\* returned, the status and the message.
Verdict(o) ==
    IF Returned(o)
    THEN [accepted |-> TRUE, role |-> o.value["role"], status_code |-> 200, detail |-> <<>>]
    ELSE [accepted |-> FALSE, role |-> "-", status_code |-> o.status_code, detail |-> o.detail]

\* C9: the outcome of the guard on the claims it was given equals its
\* outcome on every claims set that differs from them in `role` only (other
\* value, or no role claim), in the same database state: accept or reject,
\* and the role returned, depend on the persisted row alone.
C9_TokenRoleIgnored ==
    [][\A p \in Procs :
        RoleStep(p)
            => \A c2 \in RoleVariants(ClaimsOf(p)) :
                 Verdict(dependency(req[p].need, c2, supabase_admin, users,
                                    req'[p].query = "raised"))
                    = Verdict(req'[p].out)]_vars

\* The token claimed "teacher", the row said "student", and
\* require_role("teacher") refused.
C9_Witness ==
    /\ req["p1"].pc = "done" /\ req["p1"].route = "role"
    /\ req["p1"].need = "teacher" /\ req["p1"].query = "ok"
    /\ "role" \in DOMAIN req["p1"].verifier.value
    /\ req["p1"].verifier.value["role"] = "teacher"
    /\ Forbidden(req["p1"].out)
    /\ req["p1"].out.detail =
         <<"Access denied. Required role: ", "teacher", ", your role: ", "student">>

\* C17 (as claimed): on verified claims the guard either returns claims or
\* raises 403, and nothing else.
C17_ReturnsOrForbidden ==
    [][\A p \in Procs :
        RoleStep(p) => (Returned(req'[p].out) \/ Forbidden(req'[p].out))]_vars

ServerConfigurationError ==
    HTTPException(500, <<"Server configuration error: Service role key missing">>)

\* C17 (amended): on verified claims the guard returns claims, raises 403,
\* or, when the privileged database handle cannot be obtained, and only
\* then, passes on the HTTP 500 "Server configuration error" that
\* get_supabase_admin raised; an unexpected error of the users lookup is
\* reported as 403 with the error's type name and message in the detail.
C17_ForbiddenOrConfigurationError ==
    [][\A p \in Procs :
        RoleStep(p)
            => /\ ~supabase_admin <=> req'[p].out = ServerConfigurationError
               /\ supabase_admin
                    => (Returned(req'[p].out) \/ Forbidden(req'[p].out))
               /\ req'[p].query = "raised"
                    => req'[p].out = HTTPException(403,
                          <<"Could not verify user role. Error: ",
                            "APIError", ": ", "db error">>)]_vars

\* The users lookup raised and the guard answered 403 naming the error.
C17_Witness ==
    /\ req["p1"].pc = "done" /\ req["p1"].route = "role"
    /\ supabase_admin /\ req["p1"].query = "raised"
    /\ Forbidden(req["p1"].out)
    /\ Contains(req["p1"].out.detail, "APIError")
    /\ Contains(req["p1"].out.detail, "db error")

---------------------------------------------------------------------------
(* Properties of concurrent calls of _get_jwks, checked under SpecConc *)

\* Both requests have ended and each call of _get_jwks performed its own
\* fetch, which succeeded.
BothFetched ==
    \A p \in Procs : req[p].pc = "done" /\ req[p].fetch = "ok"

\* C16 (as claimed): when two concurrent calls of _get_jwks have each
\* fetched, both returned the key list that is left in the cache.
C16_BothReturnCachedList ==
    BothFetched => \A p \in Procs : req[p].jwks = jwks_cache.keys

\* C16 (amended): when two concurrent calls of _get_jwks have each fetched,
\* both completed, each returned the non-empty list its own fetch received,
\* and the cache is set and holds the list one of them returned (that of
\* the fetch that completed last); the two returned lists may differ.
C16_CacheHoldsOneReturnedList ==
    BothFetched
        => /\ jwks_cache.set
           /\ \E p \in Procs : req[p].jwks = jwks_cache.keys
           /\ \A p \in Procs :
                /\ req[p].jwks \in KeyLists \ {<<>>}
                /\ req[p].verifier =
                     Strategy2(TokenOf(p), jwt_secret, req[p].jwks, req[p].at)

\* Two concurrent calls fetched different lists; the cache holds the list
\* of the second request, the first request was answered from the other.
C16_Witness ==
    /\ BothFetched
    /\ req["p1"].jwks # req["p2"].jwks
    /\ jwks_cache.keys = req["p2"].jwks

---------------------------------------------------------------------------
(* Properties of GET /users/me, checked under SpecMe *)

MeStep(p) ==
    req[p].pc = "verified" /\ req[p].route = "users_me" /\ req'[p].pc = "done"

\* C19 (as claimed): GET /users/me for a verified subject without a users
\* row, when the database handle is there and no database call fails,
\* answers 200 with a profile whose id is the token's sub and whose email is
\* the token's email, and inserts no row into the users table.
C19_MissingRowNoInsert ==
    [][\A p \in Procs :
        (MeStep(p) /\ supabase_admin /\ req'[p].query = "ok"
            /\ users[ClaimsOf(p)["sub"]] = NoRow
            /\ "email" \in DOMAIN ClaimsOf(p))
            => /\ Returned(req'[p].out)
               /\ req'[p].out.value["id"] = ClaimsOf(p)["sub"]
               /\ req'[p].out.value["email"] = ClaimsOf(p)["email"]
               /\ users' = users]_vars

---------------------------------------------------------------------------
(* Properties of the feed, checked under SpecPosts *)

PostsStep(p) ==
    req[p].pc = "verified" /\ req[p].route = "posts" /\ req'[p].pc = "done"

\* The identity the verifier established for the request, "None" without
\* a token and for a token the verifier rejected.
VerifiedIdentity(p) ==
    IF req[p].cred.present /\ Returned(req[p].verifier)
    THEN req[p].verifier.value["sub"]
    ELSE "None"

\* Number of rows of a likes table for one item.
RECURSIVE RowCount(_, _, _)
RowCount(table, item, us) ==
    IF us = {} THEN 0
    ELSE LET u == CHOOSE u \in us : TRUE
         IN  table[<<item, u>>] + RowCount(table, item, us \ {u})

\* The like fields of an item of the response are right for identity me.
LikeFieldsRight(x, table, me) ==
    /\ x.like_count = RowCount(table, x.id, Subjects)
    /\ x.liked_by_me = (me # "None" /\ table[<<x.id, IF me = "None" THEN "u1" ELSE me>>] > 0)

\* C18: get_posts never answers 401.  When the database calls succeed it
\* answers with every post and comment; without a token and with an
\* invalid token every liked_by_me is false; for a verified identity u the
\* liked_by_me of a post (comment) is true exactly when a likes
\* (comment_likes) row of u for it exists; like_count is the number of
\* likes (comment_likes) rows for the item.
C18_FeedLikes ==
    [][\A p \in Procs :
        PostsStep(p)
            => /\ ~(Raised(req'[p].out) /\ req'[p].out.status_code = 401)
               /\ (supabase_admin /\ req'[p].query = "ok")
                    => /\ Returned(req'[p].out)
                       /\ {req'[p].out.value[i].id : i \in 1..Len(req'[p].out.value)}
                            = feed.posts
                       /\ Len(req'[p].out.value) = Cardinality(feed.posts)
                       /\ \A i \in 1..Len(req'[p].out.value) :
                            LET post == req'[p].out.value[i]
                            IN  /\ LikeFieldsRight(post, feed.likes, VerifiedIdentity(p))
                                /\ {post.comments[j].id : j \in 1..Len(post.comments)}
                                     = {c.id : c \in {d \in feed.comments :
                                                        d.post_id = post.id}}
                                /\ \A j \in 1..Len(post.comments) :
                                     LikeFieldsRight(post.comments[j],
                                         feed.comment_likes, VerifiedIdentity(p))]_vars

\* A token signed with another secret was served as anonymous: the post
\* and its comment, both liked by the subject the token names, came back
\* with their counts and liked_by_me false.
C18_Witness ==
    /\ req["p1"].pc = "done" /\ req["p1"].route = "posts"
    /\ req["p1"].cred.present /\ TokenOf("p1").sig = "s2"
    /\ TokenOf("p1").payload["sub"] = "u1"
    /\ IsAuthError(req["p1"].verifier)
    /\ feed.likes[<<"p1", "u1">>] > 0 /\ feed.comment_likes[<<"c1", "u1">>] > 0
    /\ Returned(req["p1"].out)
    /\ \E i \in 1..Len(req["p1"].out.value) :
         /\ req["p1"].out.value[i].id = "p1"
         /\ req["p1"].out.value[i].like_count > 0
         /\ ~req["p1"].out.value[i].liked_by_me
         /\ Len(req["p1"].out.value[i].comments) = 1
         /\ req["p1"].out.value[i].comments[1].like_count > 0
         /\ ~req["p1"].out.value[i].comments[1].liked_by_me

---------------------------------------------------------------------------
(* Further properties of the token verifier, checked under Spec *)

\* _get_jwks returned a key list to the request and no key of it has the
\* kid of the token's header.
NoKeyForKid(p) ==
    /\ req[p].cred.present
    /\ req[p].fetch \in {"cached", "ok"}
    /\ \/ req[p].jwks = <<>>
       \/ /\ "kid" \in DOMAIN TokenOf(p).header
          /\ FindKey(req[p].jwks, TokenOf(p).header["kid"]) = 0

PublicKeyNotFound == "Public key not found and no symmetric secret configured"
NoValidMethod     == "Authentication failed: No valid verification method found"

---------------------------------------------------------------------------
(* Properties of the key set cache, checked under SpecCache *)

\* C22 (as claimed): once _jwks_cache holds a key list, no later step of
\* any request replaces it with a different key list.
C22_WrittenOnce ==
    [][jwks_cache.set => jwks_cache' = jwks_cache]_vars

\* C22 (amended): the cache changes only when a fetch completes, and then
\* holds the list that fetch received; while it holds a non-empty list no
\* arriving request starts a fetch, so it can then be replaced only by a
\* fetch that was in flight already, which may store a different list.
C22_WrittenByCompletingFetch ==
    [][/\ jwks_cache' # jwks_cache
            => \E p \in Procs :
                /\ req[p].pc = "jwks" /\ req'[p].fetch = "ok"
                /\ jwks_cache' = CacheOf(req'[p].jwks)
                /\ req'[p].jwks = upstream
       /\ \A p \in Procs :
            (jwks_cache.set /\ jwks_cache.keys # <<>>
                /\ req[p].pc = "idle" /\ req'[p].pc # "idle")
                => /\ req'[p].pc # "jwks"
                   /\ req'[p].fetch = "cached"
                   /\ req'[p].jwks = jwks_cache.keys
                   /\ jwks_cache' = jwks_cache]_vars

\* A request was served from a non-empty cached list while the other
\* request, whose fetch had started before the list was stored, was still
\* waiting for the provider, which now publishes another list.
C22_Witness ==
    /\ req["p1"].pc = "done" /\ req["p1"].fetch = "cached"
    /\ req["p1"].jwks = jwks_cache.keys /\ jwks_cache.keys # <<>>
    /\ req["p2"].pc = "jwks"
    /\ upstream # jwks_cache.keys

---------------------------------------------------------------------------
(* Properties of the role guard over several requests, under SpecStale *)

\* Request p has passed the guard for role r with credentials cred.
Passed(p, cred, r) ==
    /\ req[p].pc = "done" /\ req[p].route = "role"
    /\ req[p].cred = cred /\ req[p].need = r
    /\ Returned(req[p].out)

\* C23: the guard reads the role from the users table on every call and
\* keeps nothing: when the row says r, require_role(r) succeeds; when the
\* row has since changed to another role, a second request with the same
\* token, while the first is still at hand, fails with 403 naming the role
\* the row holds now.
C23_RoleRederived ==
    [][\A q \in Procs :
        (RoleStep(q) /\ supabase_admin /\ req'[q].query = "ok")
            => /\ users[ClaimsOf(q)["sub"]] = req[q].need
                    => /\ Returned(req'[q].out)
                       /\ req'[q].out.value["role"] = req[q].need
               /\ \A p \in Procs \ {q} :
                    ( /\ Passed(p, req[q].cred, req[q].need)
                      /\ users[ClaimsOf(q)["sub"]] \in PersistedRoles \ {req[q].need} )
                        => /\ Forbidden(req'[q].out)
                           /\ req'[q].out.detail =
                                <<"Access denied. Required role: ", req[q].need,
                                  ", your role: ", users[ClaimsOf(q)["sub"]]>>]_vars

\* Two requests with the same token for require_role("teacher"): the first
\* passed, the row then changed to "student", the second was refused.
C23_Witness ==
    /\ Passed("p1", req["p2"].cred, "teacher")
    /\ req["p2"].pc = "done" /\ req["p2"].route = "role" /\ req["p2"].need = "teacher"
    /\ req["p2"].query = "ok"
    /\ users["u1"] = "student"
    /\ Forbidden(req["p2"].out)
    /\ req["p2"].out.detail =
         <<"Access denied. Required role: ", "teacher", ", your role: ", "student">>

---------------------------------------------------------------------------
(* Properties of repeated verification, checked under SpecPure *)

\* Both requests have their verdict, for the same token.
SameCall(p, q) ==
    /\ req[p].pc = "done" /\ req[q].pc = "done"
    /\ req[p].cred = req[q].cred

\* C24 (as claimed): two calls with the same token, the same secret and
\* the same cache contents give the same outcome.  Two calls that were both
\* served the same cached, non-empty key list had the same cache contents.
C24_FunctionOfTokenConfigCache ==
    \A p, q \in Procs :
        ( /\ SameCall(p, q)
          /\ req[p].fetch = "cached" /\ req[q].fetch = "cached"
          /\ req[p].jwks = req[q].jwks )
            => req[p].verifier = req[q].verifier

\* The verifier leaves the configuration, the users table and the feed as
\* they are, and changes the cache only by storing a fetched list.
VerifierFrame ==
    (\E p \in Procs : req[p].pc \in {"idle", "jwks"} /\ req'[p] # req[p])
        => /\ UNCHANGED <<jwt_secret, supabase_admin, users, feed, manager>>
           /\ jwks_cache' # jwks_cache
                => \E p \in Procs :
                    /\ req[p].pc = "jwks" /\ req'[p].fetch = "ok"
                    /\ jwks_cache' = CacheOf(req'[p].jwks)

\* C24 (amended): the outcome of get_current_user is a function of the
\* token, the configured secret, the current time and what _get_jwks gave
\* the call (the cached list, the list just fetched from the provider, or a
\* failure): two calls that agree on these end the same; and the call
\* changes no state other than the cache.
C24_FunctionOfTokenConfigCacheTimeFetch ==
    [][/\ VerifierFrame
       /\ \A p, q \in Procs :
            ( /\ req'[p].pc = "done" /\ req'[q].pc = "done"
              /\ req'[p].cred = req'[q].cred
              /\ req'[p].at = req'[q].at
              /\ req'[p].fetch = req'[q].fetch
              /\ req'[p].jwks = req'[q].jwks )
                => req'[p].verifier = req'[q].verifier]_vars

\* The same RS256 token, verified twice against the same cached key list:
\* accepted before its expiration, rejected after it.
C24_Witness ==
    /\ SameCall("p1", "p2")
    /\ req["p1"].fetch = "cached" /\ req["p2"].fetch = "cached"
    /\ req["p1"].jwks = req["p2"].jwks
    /\ req["p1"].at < req["p2"].at
    /\ Returned(req["p1"].verifier)
    /\ req["p2"].verifier =
         AuthError(<<"Invalid or expired authentication token: ", "Signature has expired.">>)

---------------------------------------------------------------------------
(* Properties of the like toggles, checked under SpecLikes *)

\* C25 (as claimed): whatever the interleaving of toggle_like (and
\* toggle_comment_like) calls, the table holds at most one row per item and
\* user; a call that completes has flipped the user's like, and the liked
\* flag and the like_count it returns agree with the table at that moment.
C25_ToggleConsistent ==
    [][/\ \A x \in DOMAIN feed.likes : feed'.likes[x] <= 1
       /\ \A x \in DOMAIN feed.comment_likes : feed'.comment_likes[x] <= 1
       /\ \A p \in Procs :
            (req[p].pc = "written" /\ req'[p].pc = "done")
                => /\ req'[p].out.value.liked
                        = (feed[LikeTable(req[p].route)][LikeKey(req[p])] > 0)
                   /\ req'[p].out.value.like_count
                        = CountRows(feed[LikeTable(req[p].route)],
                                    req[p].item, Subjects)]_vars

---------------------------------------------------------------------------
(* Properties of profile creation, checked under SpecProfile *)

\* Request p is a GET /users/me that answered with a profile it created.
AutoCreated(p) ==
    /\ req[p].pc = "done" /\ req[p].route = "users_me"
    /\ Returned(req[p].out)
    /\ "first_name" \in DOMAIN req[p].out.value

---------------------------------------------------------------------------
(* Properties of a failed key set fetch, checked under SpecCache *)

\* Request p's fetch of the key set fails in this step.
FetchFails(p) ==
    req[p].pc = "jwks" /\ req'[p].pc = "done" /\ req'[p].fetch = "failed"

\* The token of request p names a key of the list ks and is signed by it.
SignedByListedKey(p, ks) ==
    /\ FindKey(ks, TokenOf(p).header.kid) # 0
    /\ TokenOf(p).sig = TokenOf(p).header.kid

\* C27: a fetch that fails rejects its request with 401 and leaves
\* _jwks_cache as it was; a call that reaches _get_jwks while no non-empty
\* list is cached waits for a fetch of its own; and when a request was
\* rejected by a failed fetch, a request with the same token whose fetch
\* succeeds with a list holding the token's key is accepted.
C27_FailedFetchRetried ==
    [][\A p \in Procs :
        /\ FetchFails(p)
            => /\ jwks_cache' = jwks_cache
               /\ req'[p].out = JwksFailed /\ req'[p].out.status_code = 401
        /\ ( /\ req[p].pc = "idle" /\ req'[p].pc # "idle"
              /\ ~(jwks_cache.set /\ jwks_cache.keys # <<>>)
              /\ ReachesJwks(req'[p].cred, jwt_secret, now) )
            => req'[p].pc = "jwks"
        /\ \A q \in Procs \ {p} :
            ( /\ req[p].pc = "done" /\ req[p].fetch = "failed"
              /\ req[q].pc = "jwks" /\ req[q].cred = req[p].cred
              /\ req'[q].fetch = "ok"
              /\ SignedByListedKey(q, upstream) )
                => /\ req'[q].out = Return(TokenOf(q).payload)
                   /\ jwks_cache' = CacheOf(upstream)]_vars

\* A token was rejected while the provider could not be reached, the cache
\* stayed unpopulated, and the same token was accepted by another request
\* whose fetch succeeded.
C27_Witness ==
    /\ req["p1"].pc = "done" /\ req["p1"].fetch = "failed"
    /\ req["p1"].out = JwksFailed
    /\ req["p2"].pc = "done" /\ req["p2"].fetch = "ok"
    /\ req["p2"].cred = req["p1"].cred
    /\ Returned(req["p2"].out)
    /\ req["p2"].at >= req["p1"].at
    /\ jwks_cache = CacheOf(req["p2"].jwks)

---------------------------------------------------------------------------
(* Properties of update_post and delete_post, checked under SpecEdit *)

\* The lookup of request p ends the request in this step, the service
\* client being configured and the database answering.
EditRefused(p) ==
    /\ req[p].pc = "verified" /\ req'[p].pc = "done"
    /\ req[p].route \in {"update_post", "delete_post"}
    /\ supabase_admin /\ req'[p].query # "raised"

\* C28: update_post and delete_post called by an identity whose sub is not
\* the post's user_id fail with 403, called for a post id that is not in
\* the table they fail with 404, and in both cases nothing is changed; the
\* posts table changes only in a step of a request of the post's author.
C28_OnlyAuthorChanges ==
    [][/\ \A p \in Procs :
            EditRefused(p)
                => /\ feed' = feed
                   /\ Raised(req'[p].out)
                   /\ req'[p].out.status_code
                        = IF req[p].item \in feed.posts THEN 403 ELSE 404
       /\ feed' # feed
            => \E p \in Procs :
                /\ req[p].pc = "checked" /\ req'[p].pc = "done"
                /\ req[p].verifier.value["sub"] = feed.user_id[req[p].item]]_vars

---------------------------------------------------------------------------
(* Properties of the ConnectionManager, checked under SpecSockets *)

\* The list holds the sockets that were accepted and have not disconnected,
\* each once, and disconnecting a socket twice is disconnecting it once.
ListIsOpenSockets ==
    /\ Range(active_connections) = {w \in Sockets : ws[w] = "open"}
    /\ Len(active_connections) = Cardinality(Range(active_connections))
    /\ \A w \in Sockets :
        /\ disconnect(disconnect(active_connections, w), w)
                = disconnect(active_connections, w)
        /\ w \notin Range(disconnect(active_connections, w))

\* C29: active_connections holds the sockets accepted and not yet
\* disconnected, none twice, disconnect is idempotent, and when a
\* broadcast has ended it attempted delivery to every socket that was
\* listed from its beginning to its end.
C29_BroadcastReachesAll ==
    /\ ListIsOpenSockets
    /\ bcast.pc = "done" => bcast.stayed \subseteq bcast.attempted

====
